---- MODULE Spec2Model ----
(***************************************************************************)
(* Model of the client-side cache and of the list renderer of the KKMST    *)
(* voucher application: CacheManager and cacheUtils of js/cache.js, with   *)
(* appConfig.cacheExpiry of js/config.js, and VirtualScrollingManager of   *)
(* js/VirtualScrollingManager.js with its callers in AppController.  The   *)
(* in-memory Maps, the localStorage mirror, the wall clock, the fields of  *)
(* the renderer, its container element and the registered event listeners  *)
(* are the state; every method is an operator over a record of the fields  *)
(* it works on, and every call of a method is one action.                  *)
(***************************************************************************)
EXTENDS Integers, Sequences, FiniteSets, TLC

VARIABLES cache, cacheTimestamps, localStorage, now, ticks, calls, last,
          vsm, container, listeners, instance, destroyed,
          allVouchersCache, loaded, shared,
          voucherManager, searchInput, timers, searches, remote, autoSave,
          audit, retrying

\* the cache store, its clock and its pending calls
cacheVars == <<cache, cacheTimestamps, localStorage, now, ticks, calls>>

\* the renderer, the DOM it works on, and the voucher list of VoucherManager
rendererVars == <<vsm, container, listeners, instance, destroyed,
                  allVouchersCache, loaded, shared>>

\* the search of VoucherManager: its fields, the search input element, the
\* pending timers of the window, the calls suspended on the collection load,
\* the remote collection, the timer of AutoSaveManager, the audit of the
\* calls made, and the call of ErrorHandler.retry under way
searchVars == <<voucherManager, searchInput, timers, searches, remote,
                autoSave, audit, retrying>>

vars == <<cacheVars, rendererVars, retrying, searchVars, last>>

----------------------------------------------------------------------------
(* Bounds of the model *)

\* number of clock advances (and page reloads) explored
MaxTicks == 2
\* scaled-down this.maxCacheSize (50 in cache.js:8)
maxCacheSize == 2
\* longest list handed to or grown in the renderer
MaxLen == 4
\* number of renderers constructed one after the other
MaxInstances == 2
\* scaled-down ceiling of the search results (100 in part_001:149)
MaxResults == 2
\* largest maxRetries given to ErrorHandler.retry (3 by default)
MaxRetries == 3

----------------------------------------------------------------------------
(* Program constants and input domains *)

\* appConfig.cacheExpiry, in milliseconds
cacheExpiry == 5 * 60 * 1000

\* cache keys the callers use
Keys == {"a", "b", "c"}
\* one key more than Keys, for the runs about eviction
EvictKeys == {"a", "b", "c", "d"}
\* the keys the asynchronous callers use
FetchKeys == {"a", "b"}
\* payloads: 0 stands for a falsy payload (0, "", false), 1 for a truthy one
Values == {0, 1}
\* the outcomes of localStorage.setItem the runs explore: TRUE is success
WriteOutcomes == {TRUE}
\* the null / undefined a lookup returns on a miss
Null == -1
\* ttl arguments callers pass as `expiry`
Expiries == {1, cacheExpiry}
\* amounts by which the clock advances between two operations
Deltas == {1, cacheExpiry}
\* the two callers whose getOrFetch calls may overlap
CallIds == {1, 2}
\* the cache keys of the runs about the durable mirror
StoreKeys == {"a", "b"}
\* the outcomes of localStorage.setItem in those runs: FALSE is a throw
StoreOutcomes == BOOLEAN
\* localStorage keys of other components: ErrorHandler, AutoSaveManager
OtherKeys == {"errorLog", "voucher_autosave"}
\* what another component stores under its key
OtherItem == <<"other">>

\* JavaScript truthiness of a payload or lookup result
Truthy(v) == v # Null /\ v # 0

----------------------------------------------------------------------------
(* Map and localStorage primitives *)

\* Map.prototype.has on the ordered Map of <<key, timestamp>> entries
MapHas(m, key) == \E i \in 1..Len(m) : m[i][1] = key

\* Map.prototype.get: the timestamp, or Null (undefined) when absent
MapGet(m, key) ==
    IF MapHas(m, key)
    THEN LET i == CHOOSE j \in 1..Len(m) : m[j][1] = key IN m[i][2]
    ELSE Null

\* Map.prototype.set: an existing key keeps its insertion position
MapSet(m, key, t) ==
    IF MapHas(m, key)
    THEN [i \in 1..Len(m) |-> IF m[i][1] = key THEN <<key, t>> ELSE m[i]]
    ELSE Append(m, <<key, t>>)

\* Map.prototype.delete
MapDelete(m, key) == SelectSeq(m, LAMBDA e : e[1] # key)

\* the plain Map this.cache: key -> payload
FnSet(f, key, v) == [k \in DOMAIN f \cup {key} |-> IF k = key THEN v ELSE f[k]]
FnDelete(f, key) == [k \in DOMAIN f \ {key} |-> f[k]]

\* the localStorage key of a cache key: 'cache_' + key
StorageKey(key) == "cache_" \o key

\* String.prototype.startsWith
startsWith(k, prefix) ==
    Len(k) >= Len(prefix) /\ SubSeq(k, 1, Len(prefix)) = prefix

\* JSON.stringify({data, timestamp}) and JSON.parse of it
JSONstringify(cacheData) == <<"json", cacheData.data, cacheData.timestamp>>
JSONparse(stored) == [data |-> stored[2], timestamp |-> stored[3]]

\* a stored string that is not the JSON of an entry: JSON.parse throws on it
Unparsable == <<"raw">>
Parses(stored) == stored[1] = "json"

\* the three stores as one record, so that methods compose
State(c, t, l) == [cache |-> c, cacheTimestamps |-> t, localStorage |-> l]
Cur == State(cache, cacheTimestamps, localStorage)
Size(S) == Cardinality(DOMAIN S.cache)

\* a variant of IsExpired that already expires an entry at the boundary
IsExpired_atBoundary(t, timestamp) == t - timestamp >= cacheExpiry

\* the expiry test shared by get, has, cleanup and loadFromStorage
IsExpired(t, timestamp) == t - timestamp > cacheExpiry

----------------------------------------------------------------------------
(* CacheManager methods *)

\* a variant of delete that leaves the durable copy in place
delete_memoryOnly(S, key) ==
    State(FnDelete(S.cache, key),
          MapDelete(S.cacheTimestamps, key),
          S.localStorage)

delete(S, key) ==
    State(FnDelete(S.cache, key),
          MapDelete(S.cacheTimestamps, key),
          FnDelete(S.localStorage, StorageKey(key)))

RECURSIVE deleteEach(_, _)
\* keys.forEach(key => this.delete(key))
deleteEach(S, keys) ==
    IF keys = <<>> THEN S
    ELSE deleteEach(delete(S, Head(keys)), Tail(keys))

RECURSIVE InsertSorted_ties(_, _)
\* a variant of InsertSorted that puts an entry before those of equal timestamp
InsertSorted_ties(e, s) ==
    IF s = <<>> THEN <<e>>
    ELSE IF e[2] <= Head(s)[2] THEN <<e>> \o s
    ELSE <<Head(s)>> \o InsertSorted_ties(e, Tail(s))

RECURSIVE InsertSorted_descending(_, _)
\* a variant of InsertSorted with the comparator reversed (b[1] - a[1])
InsertSorted_descending(e, s) ==
    IF s = <<>> THEN <<e>>
    ELSE IF e[2] > Head(s)[2] THEN <<e>> \o s
    ELSE <<Head(s)>> \o InsertSorted_descending(e, Tail(s))

RECURSIVE InsertSorted(_, _)
\* one step of the stable sort: e goes after the entries that are not newer
InsertSorted(e, s) ==
    IF s = <<>> THEN <<e>>
    ELSE IF e[2] < Head(s)[2] THEN <<e>> \o s
    ELSE <<Head(s)>> \o InsertSorted(e, Tail(s))

RECURSIVE sortedEntries(_)
\* Array.from(entries).sort((a, b) => a[1] - b[1]): stable, ascending timestamp
sortedEntries(m) ==
    IF m = <<>> THEN <<>>
    ELSE InsertSorted(m[Len(m)], sortedEntries(SubSeq(m, 1, Len(m) - 1)))

KeysOf(entries) == [i \in 1..Len(entries) |-> entries[i][1]]

\* the keys cleanup collects as expired, in Map order
expiredKeys(S, t) ==
    KeysOf(SelectSeq(S.cacheTimestamps, LAMBDA e : IsExpired(t, e[2])))

\* a variant of toRemove that removes a single entry however large the surplus
toRemove_one(S) == SubSeq(sortedEntries(S.cacheTimestamps), 1, 1)

\* the entries cleanup removes as oldest once the expired ones are gone
toRemove(S) ==
    SubSeq(sortedEntries(S.cacheTimestamps), 1, Size(S) - maxCacheSize)

\* a variant of cleanup that takes the entries out of the Maps only
cleanup_memoryOnly(S, t) ==
    LET S1 == deleteEach(S, expiredKeys(S, t))
        S2 == IF Size(S1) > maxCacheSize
              THEN deleteEach(S1, KeysOf(toRemove(S1)))
              ELSE S1
    IN  State(S2.cache, S2.cacheTimestamps, S.localStorage)

\* cleanup: the expired entries go, then the oldest of the surplus
cleanup(S, t) ==
    LET S1 == deleteEach(S, expiredKeys(S, t))
    IN  IF Size(S1) > maxCacheSize
        THEN deleteEach(S1, KeysOf(toRemove(S1)))
        ELSE S1

\* a variant of saveToStorage that undoes the in-memory write when
\* localStorage.setItem throws
saveToStorage_rollback(S, key, data, timestamp, ok) ==
    IF ok
    THEN State(S.cache, S.cacheTimestamps,
               FnSet(S.localStorage, StorageKey(key),
                     JSONstringify([data |-> data, timestamp |-> timestamp])))
    ELSE State(FnDelete(S.cache, key), MapDelete(S.cacheTimestamps, key),
               S.localStorage)

\* ok = FALSE: localStorage.setItem throws (quota), caught and logged
saveToStorage(S, key, data, timestamp, ok) ==
    IF ok
    THEN State(S.cache, S.cacheTimestamps,
               FnSet(S.localStorage, StorageKey(key),
                     JSONstringify([data |-> data, timestamp |-> timestamp])))
    ELSE S

\* this.cache.set(key, data); this.cacheTimestamps.set(key, timestamp)
setEntry(S, key, data, timestamp) ==
    State(FnSet(S.cache, key, data),
          MapSet(S.cacheTimestamps, key, timestamp),
          S.localStorage)

\* the expiry argument is accepted and not used
set(S, key, data, expiry, t, ok) ==
    LET timestamp == t
        S1 == setEntry(S, key, data, timestamp)
        S2 == IF Size(S1) > maxCacheSize THEN cleanup(S1, t) ELSE S1
    IN  saveToStorage(S2, key, data, timestamp, ok)

\* a variant of loadFromStorage that stamps a hydrated entry with the time of
\* the read
loadFromStorage_restamp(S, key, t) ==
    IF StorageKey(key) \notin DOMAIN S.localStorage
    THEN [st |-> S, ret |-> Null]
    ELSE IF ~Parses(S.localStorage[StorageKey(key)])
    THEN [st |-> S, ret |-> Null]
    ELSE LET cacheData == JSONparse(S.localStorage[StorageKey(key)])
         IN  IF IsExpired(t, cacheData.timestamp)
             THEN [st  |-> State(S.cache, S.cacheTimestamps,
                                 FnDelete(S.localStorage, StorageKey(key))),
                   ret |-> Null]
             ELSE [st  |-> State(FnSet(S.cache, key, cacheData.data),
                                 MapSet(S.cacheTimestamps, key, t),
                                 S.localStorage),
                   ret |-> cacheData.data]

\* the whole body runs in a try block: an item that JSON.parse rejects ends
\* in the catch block, which logs and returns null
loadFromStorage(S, key, t) ==
    IF StorageKey(key) \notin DOMAIN S.localStorage
    THEN [st |-> S, ret |-> Null]
    ELSE IF ~Parses(S.localStorage[StorageKey(key)])
    THEN [st |-> S, ret |-> Null]
    ELSE LET cacheData == JSONparse(S.localStorage[StorageKey(key)])
         IN  IF IsExpired(t, cacheData.timestamp)
             THEN [st  |-> State(S.cache, S.cacheTimestamps,
                                 FnDelete(S.localStorage, StorageKey(key))),
                   ret |-> Null]
             ELSE [st  |-> State(FnSet(S.cache, key, cacheData.data),
                                 MapSet(S.cacheTimestamps, key, cacheData.timestamp),
                                 S.localStorage),
                   ret |-> cacheData.data]

get(S, key, t) ==
    LET timestamp == MapGet(S.cacheTimestamps, key)
    IN  IF timestamp = Null \/ timestamp = 0
        THEN loadFromStorage(S, key, t)
        ELSE IF IsExpired(t, timestamp)
        THEN [st |-> delete(S, key), ret |-> Null]
        ELSE [st |-> S, ret |-> S.cache[key]]

\* a variant of has whose in-memory test is strict (<  instead of <=)
has_strict(S, key, t) ==
    LET timestamp == MapGet(S.cacheTimestamps, key)
    IN  IF timestamp = Null \/ timestamp = 0
        THEN LET stored == loadFromStorage(S, key, t)
             IN  [st |-> stored.st, ret |-> IF stored.ret # Null THEN 1 ELSE 0]
        ELSE [st |-> S, ret |-> IF t - timestamp < cacheExpiry THEN 1 ELSE 0]

\* ret is 1 for true and 0 for false
has(S, key, t) ==
    LET timestamp == MapGet(S.cacheTimestamps, key)
    IN  IF timestamp = Null \/ timestamp = 0
        THEN LET stored == loadFromStorage(S, key, t)
             IN  [st |-> stored.st, ret |-> IF stored.ret # Null THEN 1 ELSE 0]
        ELSE [st |-> S, ret |-> IF ~IsExpired(t, timestamp) THEN 1 ELSE 0]

\* a variant of clear that empties localStorage altogether
clear_everything(S) == State(<<>>, <<>>, <<>>)

\* Object.keys(localStorage).forEach: every key that starts with 'cache_' is
\* removed, the others stay
clear(S) ==
    LET kept == {k \in DOMAIN S.localStorage : ~startsWith(k, "cache_")}
    IN  State(<<>>, <<>>, [k \in kept |-> S.localStorage[k]])

----------------------------------------------------------------------------
(* cacheUtils *)

\* getOrFetch up to its await: the lookup, and whether fetchFunction is invoked
getOrFetch(S, key, t) ==
    LET cached == get(S, key, t)
    IN  [st |-> cached.st, ret |-> cached.ret, invoked |-> ~Truthy(cached.ret)]

\* a variant of getOrFetchThen that keeps an entry stored in the meantime
getOrFetchThen_keepFirst(S, key, data, expiry, t, ok) ==
    IF key \in DOMAIN S.cache THEN S ELSE set(S, key, data, expiry, t, ok)

\* getOrFetch after fetchFunction has resolved with data
getOrFetchThen(S, key, data, expiry, t, ok) == set(S, key, data, expiry, t, ok)

\* a variant of getOrFetchCatch that invalidates the key on failure
getOrFetchCatch_invalidate(S, key) == delete(S, key)

\* getOrFetch after fetchFunction has rejected: the error is rethrown
getOrFetchCatch(S, key) == S

----------------------------------------------------------------------------
(* VirtualScrollingManager: input domains and arithmetic *)

\* item heights in pixels, scaled down from the 60 of AppController
ItemHeights == {2, 3}
\* buffer sizes, scaled down from the 5 of AppController
BufferSizes == {0, 1}
\* heights of the container element in pixels
ClientHeights == {2, 5}
\* the arguments AppController constructs its renderer with, scaled down
DefaultItemHeight == 3
DefaultBufferSize == 1
DefaultClientHeight == 5
\* the values of the technician select: '' is "all technicians"
Technicians == {"", "t1", "t2"}

\* a voucher record: { id: doc.id, ...doc.data() }
Voucher(id, technicianName) ==
    [id |-> id, technicianName |-> technicianName, amount |-> 0]
\* the vouchers of one date: n records with distinct ids
DateVouchers(n) == [i \in 1..n |-> Voucher(i, "t1")]
\* the lists loadAllVouchersCache may read from the database
AllVouchers ==
    {<<>>, <<Voucher(1, "t1")>>, <<Voucher(1, "t1"), Voucher(2, "t2")>>}
\* the record addItem is given, and the fields updateItem is given
NewVoucher == Voucher(9, "t2")
NewData == [amount |-> 1]

Max(a, b) == IF a >= b THEN a ELSE b
Min(a, b) == IF a <= b THEN a ELSE b
Abs(a) == IF a >= 0 THEN a ELSE -a
\* Math.floor(a / b) and Math.ceil(a / b) for a >= 0 and b > 0
Floor(a, b) == a \div b
Ceil(a, b) == (a + b - 1) \div b

\* { ...old, ...newData }
Merge(old, newData) ==
    [f \in DOMAIN old \cup DOMAIN newData |->
        IF f \in DOMAIN newData THEN newData[f] ELSE old[f]]

\* Array.prototype.splice(index, 0, item) and splice(index, 1), 0-based
InsertAt(a, index, item) ==
    LET i == Min(index, Len(a))
    IN  SubSeq(a, 1, i) \o <<item>> \o SubSeq(a, i + 1, Len(a))
RemoveAt(a, index) == SubSeq(a, 1, index) \o SubSeq(a, index + 2, Len(a))

----------------------------------------------------------------------------
(* VirtualScrollingManager: methods over the record V of the instance's     *)
(* fields; indices are 0-based as in the source, V.virtualContent is        *)
(* virtualContent.style.height in pixels (Null while unset),               *)
(* V.visibleContainer is the rendered rows, from data-index to the record   *)
(* the row shows, c is the container element                                *)

\* the instance after the constructor and initialize()
VirtualScrollingManager(itemHeight, bufferSize, c) ==
    [itemHeight |-> itemHeight, bufferSize |-> bufferSize, data |-> <<>>,
     scrollTop |-> 0, containerHeight |-> c.clientHeight, totalHeight |-> 0,
     startIndex |-> 0, endIndex |-> 0, virtualContent |-> Null,
     visibleContainer |-> <<>>]

\* a variant of visibleRange that rounds the lower edge of the viewport's end
\* down instead of up
visibleRange_floorEnd(length, scrollTop, containerHeight, itemHeight, bufferSize) ==
    [startIndex |-> Max(0, Floor(scrollTop, itemHeight) - bufferSize),
     endIndex   |-> Min(length - 1,
                        Floor(scrollTop + containerHeight, itemHeight) + bufferSize)]

\* the two assignments of calculateVisibleRange as a function of what they read
visibleRange(length, scrollTop, containerHeight, itemHeight, bufferSize) ==
    [startIndex |-> Max(0, Floor(scrollTop, itemHeight) - bufferSize),
     endIndex   |-> Min(length - 1,
                        Ceil(scrollTop + containerHeight, itemHeight) + bufferSize)]

calculateVisibleRange(V) ==
    LET r == visibleRange(Len(V.data), V.scrollTop, V.containerHeight,
                          V.itemHeight, V.bufferSize)
    IN  [V EXCEPT !.startIndex = r.startIndex, !.endIndex = r.endIndex]

\* the rows are rendered anew: one for every index of startIndex..endIndex
\* that the list has
updateVisibleItems(V) ==
    LET R == calculateVisibleRange(V)
    IN  [R EXCEPT !.visibleContainer =
            [i \in {j \in R.startIndex..R.endIndex : j < Len(R.data)} |->
                R.data[i + 1]]]

\* data.slice(startIndex, endIndex + 1)
getVisibleItems(V) ==
    SubSeq(V.data, Min(V.startIndex, Len(V.data)) + 1,
                   Min(V.endIndex + 1, Len(V.data)))

setData(V, data) ==
    LET totalHeight == Len(data) * V.itemHeight
    IN  updateVisibleItems([V EXCEPT !.data = data,
                                     !.totalHeight = totalHeight,
                                     !.virtualContent = totalHeight])

\* handleScroll without its threshold
handleScroll_always(V, c) ==
    updateVisibleItems([V EXCEPT !.scrollTop = c.scrollTop])

handleScroll(V, c) ==
    LET newScrollTop == c.scrollTop
    IN  IF 2 * Abs(newScrollTop - V.scrollTop) > V.itemHeight
        THEN updateVisibleItems([V EXCEPT !.scrollTop = newScrollTop])
        ELSE V

updateContainerHeight(V, c) == [V EXCEPT !.containerHeight = c.clientHeight]

\* the resize listener: updateContainerHeight(); updateVisibleItems()
onResize(V, c) == updateVisibleItems(updateContainerHeight(V, c))

\* a variant of updateItem that stores the patch in place of the record
updateItem_replace(V, index, newData) ==
    IF index >= 0 /\ index < Len(V.data)
    THEN [V EXCEPT !.data[index + 1] = newData,
                   !.visibleContainer =
                       IF index \in DOMAIN @
                       THEN [@ EXCEPT ![index] = newData] ELSE @]
    ELSE V

\* the row of the record is rendered again when the container has one; the
\* callers of setData always pass a render function
updateItem(V, index, newData) ==
    IF index >= 0 /\ index < Len(V.data)
    THEN [V EXCEPT !.data[index + 1] = Merge(@, newData),
                   !.visibleContainer =
                       IF index \in DOMAIN @
                       THEN [@ EXCEPT ![index] = Merge(V.data[index + 1], newData)]
                       ELSE @]
    ELSE V

\* a variant of addItem that appends whatever the index
addItem_append(V, item, index) ==
    LET data        == Append(V.data, item)
        totalHeight == Len(data) * V.itemHeight
    IN  updateVisibleItems([V EXCEPT !.data = data,
                                     !.totalHeight = totalHeight,
                                     !.virtualContent = totalHeight])

addItem(V, item, index) ==
    LET data        == IF index = -1 THEN Append(V.data, item)
                       ELSE InsertAt(V.data, index, item)
        totalHeight == Len(data) * V.itemHeight
    IN  updateVisibleItems([V EXCEPT !.data = data,
                                     !.totalHeight = totalHeight,
                                     !.virtualContent = totalHeight])

\* a variant of removeItem that leaves totalHeight and the spacer as they were
removeItem_staleHeight(V, index) ==
    IF index >= 0 /\ index < Len(V.data)
    THEN updateVisibleItems([V EXCEPT !.data = RemoveAt(V.data, index)])
    ELSE V

removeItem(V, index) ==
    IF index >= 0 /\ index < Len(V.data)
    THEN LET data        == RemoveAt(V.data, index)
             totalHeight == Len(data) * V.itemHeight
         IN  updateVisibleItems([V EXCEPT !.data = data,
                                          !.totalHeight = totalHeight,
                                          !.virtualContent = totalHeight])
    ELSE V

\* VirtualScrollingManager.clear
clearItems(V) ==
    [V EXCEPT !.data = <<>>, !.totalHeight = 0, !.virtualContent = 0,
              !.visibleContainer = <<>>]

setItemHeight(V, newHeight) ==
    LET totalHeight == Len(V.data) * newHeight
    IN  updateVisibleItems([V EXCEPT !.itemHeight = newHeight,
                                     !.totalHeight = totalHeight,
                                     !.virtualContent = totalHeight])

----------------------------------------------------------------------------
(* The container element and the event listeners *)

\* the height of the spacer element: its style.height, and 0 while that is
\* unset, since the element has no child in the normal flow
SpacerHeight(V) == IF V.virtualContent # Null THEN V.virtualContent ELSE 0

\* the height of what the container scrolls: the spacer, while it is attached
scrollHeight(V, attached) == IF attached THEN SpacerHeight(V) ELSE 0

\* the browser keeps container.scrollTop within 0..scrollHeight - clientHeight
maxScrollTop(V, c, attached) == Max(0, scrollHeight(V, attached) - c.clientHeight)
Layout(V, c, attached) ==
    [c EXCEPT !.scrollTop = Min(@, maxScrollTop(V, c, attached))]

\* a variant of scrollToIndex that aims one row short
scrollToIndex_rowAbove(V, c, index) ==
    IF index >= 0 /\ index < Len(V.data)
    THEN Layout(V, [c EXCEPT !.scrollTop = Max(0, index - 1) * V.itemHeight], TRUE)
    ELSE c

\* scrollToIndex: the assignment to container.scrollTop, which the browser
\* keeps within its bounds
scrollToIndex(V, c, index) ==
    IF index >= 0 /\ index < Len(V.data)
    THEN Layout(V, [c EXCEPT !.scrollTop = index * V.itemHeight], TRUE)
    ELSE c

\* a function object: the arrow functions of setupEventListeners are created
\* anew by every call, the methods live on the prototype
Arrow(type, id) == <<"arrow", type, id>>
Method(name) == <<"method", name>>

Listener(target, type, handler) ==
    [target |-> target, type |-> type, handler |-> handler]
addEventListener(L, target, type, handler) ==
    L \cup {Listener(target, type, handler)}
removeEventListener(L, target, type, handler) ==
    L \ {Listener(target, type, handler)}

setupEventListeners(L, id) ==
    addEventListener(addEventListener(L, "container", "scroll", Arrow("scroll", id)),
                     "window", "resize", Arrow("resize", id))

\* the two removeEventListener calls of destroy
destroyListeners(L) ==
    removeEventListener(
        removeEventListener(L, "container", "scroll", Method("handleScroll")),
        "window", "resize", Method("updateContainerHeight"))

\* the listeners instance id has registered
ListenersOf(L, id) == {l \in L : l.handler = Arrow(l.type, id)}

\* a variant of the constructor that calls initialize() before it looks at
\* this.container
construct_initFirst(L, c, id, itemHeight, bufferSize, found) ==
    IF ~found
    THEN [thrown |-> TRUE, vsm |-> Null,
          listeners |-> setupEventListeners(L, id), created |-> 2]
    ELSE [thrown |-> FALSE, vsm |-> VirtualScrollingManager(itemHeight, bufferSize, c),
          listeners |-> setupEventListeners(L, id), created |-> 2]

\* `new VirtualScrollingManager(selector, itemHeight, bufferSize)` as instance
\* id: found tells whether querySelector returned an element.  The result is
\* whether the constructor threw, the instance the caller gets, the listeners
\* afterwards and the number of elements setupContainer created
construct(L, c, id, itemHeight, bufferSize, found) ==
    IF ~found
    THEN [thrown |-> TRUE, vsm |-> Null, listeners |-> L, created |-> 0]
    ELSE [thrown |-> FALSE, vsm |-> VirtualScrollingManager(itemHeight, bufferSize, c),
          listeners |-> setupEventListeners(L, id), created |-> 2]

----------------------------------------------------------------------------
(* The timers of the window: a pending timer is a handle with the callback *)
(* it will run; a timer leaves the pending ones when it fires or is        *)
(* cleared, while the field that holds its handle keeps the number         *)

\* handles setTimeout may return
TimerIds == 1..4

Timer(id, callback) == [id |-> id, callback |-> callback]

\* the handle of the next timer: one that no pending timer has and that no
\* other component still holds
setTimeoutId(T, held) ==
    CHOOSE id \in TimerIds :
        /\ id \notin {t.id : t \in T} \cup held
        /\ \A other \in TimerIds :
              other \notin {t.id : t \in T} \cup held => id <= other

setTimeout(T, id, callback) == T \cup {Timer(id, callback)}

\* clearing a handle that is not pending does nothing
clearTimeout(T, id) == {t \in T : t.id # id}

Pending(T, callback) == {t \in T : t.callback = callback}

----------------------------------------------------------------------------
(* VoucherManager: the search.  Strings are sequences of characters; M is  *)
(* the record of the fields searchDebounceTimer, searchResults,            *)
(* isSearchMode and currentUserId and of the message shown last            *)

\* String.prototype.toLowerCase over the letters of the model
toLowerCaseChar(ch) ==
    CASE ch = "A" -> "a"
      [] ch = "B" -> "b"
      [] OTHER    -> ch
toLowerCase(s) == [i \in 1..Len(s) |-> toLowerCaseChar(s[i])]

\* String.prototype.trim
RECURSIVE trimStart(_)
trimStart(s) == IF s # <<>> /\ Head(s) = " " THEN trimStart(Tail(s)) ELSE s
RECURSIVE trimEnd(_)
trimEnd(s) ==
    IF s # <<>> /\ s[Len(s)] = " " THEN trimEnd(SubSeq(s, 1, Len(s) - 1)) ELSE s
trim(s) == trimEnd(trimStart(s))

\* String.prototype.includes
includes(s, searchString) ==
    \E i \in 0..(Len(s) - Len(searchString)) :
        SubSeq(s, i + 1, i + Len(searchString)) = searchString

\* a record of the collection; the voucherNumber field may be missing
SearchVoucher(id, voucherNumber) == [id |-> id, voucherNumber |-> voucherNumber]
Unnumbered(id) == [id |-> id]

\* the number as it is stored, in the case it was typed
voucherNumberOf_caseSensitive(voucher) ==
    IF "voucherNumber" \in DOMAIN voucher THEN voucher.voucherNumber ELSE <<>>

\* (voucher.voucherNumber || '').toString().toLowerCase()
voucherNumberOf(voucher) ==
    toLowerCase(IF "voucherNumber" \in DOMAIN voucher
                THEN voucher.voucherNumber ELSE <<>>)

\* the documents of the remote collection when the page opens, and the one
\* handleAddVoucher stores
RemoteDocs == <<SearchVoucher(1, <<"A", "B">>), SearchVoucher(2, <<"b">>)>>
NewDoc == SearchVoucher(3, <<"a", "b">>)
\* values the user gives the search input
SearchInputs == {<<>>, <<" ">>, <<"a">>, <<"a", "B", " ">>}
\* calls of performVoucherSearch that may be suspended at a time
SearchIds == {1, 2}

\* the user ids initialize is given: the id of the signed-in user, or null
UserId == 1
UserIds == {Null, UserId}

\* `new VoucherManager()` after initialize(userId), which sets currentUserId
\* and registers the listeners
initialize(userId) ==
    [searchDebounceTimer |-> Null, searchResults |-> <<>>,
     isSearchMode |-> FALSE, message |-> "none", currentUserId |-> userId]

\* `new VoucherManager()` after initialize with the id of the signed-in user
VoucherManager == initialize(UserId)

\* the loop with a ceiling that is passed by one
RECURSIVE searchLoop_oneMore(_, _, _, _)
searchLoop_oneMore(all, searchQuery, i, searchResults) ==
    IF i > Len(all) THEN searchResults
    ELSE IF includes(voucherNumberOf(all[i]), searchQuery)
         THEN IF Len(searchResults) + 1 > MaxResults
              THEN Append(searchResults, all[i])
              ELSE searchLoop_oneMore(all, searchQuery, i + 1,
                                      Append(searchResults, all[i]))
         ELSE searchLoop_oneMore(all, searchQuery, i + 1, searchResults)

\* the loop of performVoucherSearch from index i on, with the results so far
RECURSIVE searchLoop(_, _, _, _)
searchLoop(all, searchQuery, i, searchResults) ==
    IF i > Len(all) THEN searchResults
    ELSE IF includes(voucherNumberOf(all[i]), searchQuery)
         THEN IF Len(searchResults) + 1 >= MaxResults
              THEN Append(searchResults, all[i])
              ELSE searchLoop(all, searchQuery, i + 1, Append(searchResults, all[i]))
         ELSE searchLoop(all, searchQuery, i + 1, searchResults)

\* a variant that leaves isSearchMode as it is when nothing matches
searchCached_keepMode(M, all, voucherSearchQuery) ==
    LET searchQuery   == toLowerCase(voucherSearchQuery)
        searchResults == searchLoop(all, searchQuery, 1, <<>>)
    IN  IF Len(searchResults) = 0
        THEN [M EXCEPT !.searchResults = searchResults,
                       !.message = "notFound"]
        ELSE [M EXCEPT !.searchResults = searchResults,
                       !.isSearchMode = TRUE,
                       !.message = IF Len(searchResults) >= MaxResults
                                   THEN "first100" ELSE "found"]

\* performVoucherSearch from the line after the load on: the query is the one
\* read when the call started, all is this.allVouchersCache now
searchCached(M, all, voucherSearchQuery) ==
    LET searchQuery   == toLowerCase(voucherSearchQuery)
        searchResults == searchLoop(all, searchQuery, 1, <<>>)
    IN  IF Len(searchResults) = 0
        THEN [M EXCEPT !.searchResults = searchResults,
                       !.isSearchMode = FALSE,
                       !.message = "notFound"]
        ELSE [M EXCEPT !.searchResults = searchResults,
                       !.isSearchMode = TRUE,
                       !.message = IF Len(searchResults) >= MaxResults
                                   THEN "first100" ELSE "found"]

\* handleSearchInput without its clearTimeout
handleSearchInput_noClear(M, T, held, value) ==
    LET voucherSearchQuery == trim(value)
        id == setTimeoutId(T, held)
    IN  IF voucherSearchQuery = <<>>
        THEN [vm     |-> [M EXCEPT !.isSearchMode = FALSE, !.searchResults = <<>>],
              timers |-> T]
        ELSE [vm     |-> [M EXCEPT !.searchDebounceTimer = id],
              timers |-> setTimeout(T, id, "performVoucherSearch")]

\* handleSearchInput with the clearTimeout in the branch that arms the timer
handleSearchInput_clearLate(M, T, held, value) ==
    LET voucherSearchQuery == trim(value)
        cleared == IF Truthy(M.searchDebounceTimer)
                   THEN clearTimeout(T, M.searchDebounceTimer) ELSE T
        id      == setTimeoutId(cleared, held)
    IN  IF voucherSearchQuery = <<>>
        THEN [vm     |-> [M EXCEPT !.isSearchMode = FALSE, !.searchResults = <<>>],
              timers |-> T]
        ELSE [vm     |-> [M EXCEPT !.searchDebounceTimer = id],
              timers |-> setTimeout(cleared, id, "performVoucherSearch")]

\* handleSearchInput for an input event on the element whose value is value;
\* held are the handles other components hold
handleSearchInput(M, T, held, value) ==
    LET voucherSearchQuery == trim(value)
        cleared == IF Truthy(M.searchDebounceTimer)
                   THEN clearTimeout(T, M.searchDebounceTimer) ELSE T
        id      == setTimeoutId(cleared, held)
    IN  IF voucherSearchQuery = <<>>
        THEN [vm     |-> [M EXCEPT !.isSearchMode = FALSE, !.searchResults = <<>>],
              timers |-> cleared]
        ELSE [vm     |-> [M EXCEPT !.searchDebounceTimer = id],
              timers |-> setTimeout(cleared, id, "performVoucherSearch")]

\* the keypress listener without its clearTimeout
keypressEnter_noClear(M, T) == T

\* the keypress listener for the Enter key, up to its call of
\* performVoucherSearch
keypressEnter(M, T) ==
    IF Truthy(M.searchDebounceTimer) THEN clearTimeout(T, M.searchDebounceTimer) ELSE T

\* invalidateVoucherCache: this.allVouchersCache = null
invalidateVoucherCache == [allVouchersCache |-> <<>>, loaded |-> FALSE]

\* loadAllVouchersCache after getDocs has settled: the documents of the
\* snapshot, or the empty array of the catch block
loadedVouchers(querySnapshot, ok) == IF ok THEN querySnapshot ELSE <<>>

----------------------------------------------------------------------------
(* CacheManager.getStats and cacheUtils.invalidatePattern *)

\* cache keys with a common part, and the patterns callers invalidate by
PatternKeys == {"ua", "ub", "d"}
Patterns == {"u", "b", "ub"}

\* Array.from(this.cache.keys()) is the keys of the Map in insertion order
getStats(S) ==
    [size |-> Size(S), maxSize |-> maxCacheSize, keys |-> KeysOf(S.cacheTimestamps)]

\* stats.keys.forEach(key => { if (key.includes(pattern)) delete(key) })
invalidatePattern(S, pattern) ==
    deleteEach(S, SelectSeq(getStats(S).keys, LAMBDA key : includes(key, pattern)))

----------------------------------------------------------------------------
(* ErrorHandler.retry: R is the call under way, with the loop variable i,  *)
(* the arguments as given, the delay as the loop has it now, the number   *)
(* of calls of operation, the errors they threw, the delays waited, and    *)
(* how the call ended                                                      *)

\* the arguments callers give, the errors operation throws and what it returns
RetryCounts == 0..MaxRetries
RetryDelays == {1, 2, 3}
Errors == {"network", "permission"}

Retry(pc, i, maxRetries, delay, attempts, errors, waits, result) ==
    [pc |-> pc, i |-> i, maxRetries |-> maxRetries, given |-> delay,
     delay |-> delay, attempts |-> attempts, errors |-> errors, waits |-> waits, result |-> result]
NoRetry == Retry("idle", 0, 0, 0, 0, <<>>, <<>>, Null)

\* retry(operation, maxRetries, delay) up to its first await: the loop is
\* entered and operation is called, or the loop is not entered and the
\* promise is fulfilled with undefined
retry(maxRetries, delay) ==
    IF 0 < maxRetries
    THEN Retry("operation", 0, maxRetries, delay, 1, <<>>, <<>>, Null)
    ELSE Retry("fulfilled", 0, maxRetries, delay, 0, <<>>, <<>>, Null)

\* operation() has resolved with value: `return await operation()`
retryReturn(R, value) == [R EXCEPT !.pc = "fulfilled", !.result = value]

\* a variant of the catch block that waits the same delay every time
retryCatch_fixedDelay(R, error) ==
    IF R.i = R.maxRetries - 1
    THEN [R EXCEPT !.pc = "rejected", !.result = error,
                   !.errors = Append(R.errors, error)]
    ELSE [R EXCEPT !.pc = "setTimeout",
                   !.errors = Append(R.errors, error),
                   !.waits = Append(R.waits, R.delay)]

\* operation() has thrown error: the catch block rethrows it in the last
\* round, and otherwise arms a timer of delay and doubles the delay
retryCatch(R, error) ==
    IF R.i = R.maxRetries - 1
    THEN [R EXCEPT !.pc = "rejected", !.result = error,
                   !.errors = Append(R.errors, error)]
    ELSE [R EXCEPT !.pc = "setTimeout",
                   !.errors = Append(R.errors, error),
                   !.waits = Append(R.waits, R.delay),
                   !.delay = R.delay * 2]

\* the timer has fired: i++, the loop condition, and the next call of
\* operation
retryNext(R) ==
    IF R.i + 1 < R.maxRetries
    THEN [R EXCEPT !.pc = "operation", !.i = R.i + 1, !.attempts = R.attempts + 1]
    ELSE [R EXCEPT !.pc = "fulfilled", !.i = R.i + 1, !.result = Null]

----------------------------------------------------------------------------
(* AutoSaveManager: A is the record of the fields saveTimer and isEnabled  *)

AutoSaveManager == [saveTimer |-> Null, isEnabled |-> TRUE]

\* scheduleAutoSave without its clearTimeout
scheduleAutoSave_noClear(A, T, held) ==
    LET id == setTimeoutId(T, held)
    IN  IF ~A.isEnabled
        THEN [autoSave |-> A, timers |-> T]
        ELSE [autoSave |-> [A EXCEPT !.saveTimer = id],
              timers   |-> setTimeout(T, id, "saveFormData")]

scheduleAutoSave(A, T, held) ==
    LET cleared == IF Truthy(A.saveTimer) THEN clearTimeout(T, A.saveTimer) ELSE T
        id      == setTimeoutId(cleared, held)
    IN  IF ~A.isEnabled
        THEN [autoSave |-> A, timers |-> T]
        ELSE [autoSave |-> [A EXCEPT !.saveTimer = id],
              timers   |-> setTimeout(cleared, id, "saveFormData")]

\* saveFormData: the form is stored under this.storageKey when a field of it
\* has a value
saveFormData(storage, hasFormData) ==
    IF hasFormData THEN FnSet(storage, "voucher_autosave", OtherItem) ELSE storage

----------------------------------------------------------------------------
(* State machine *)

\* a getOrFetch call: pc is idle, await, done or failed; peer records that
\* another call for the same key was awaiting when this one completed
Call(pc, key, peer) == [pc |-> pc, key |-> key, peer |-> peer]
NoCall == Call("idle", "a", FALSE)

\* the operation that ran last, with what it was given and what it returned;
\* a clock advance leaves it as it is
LastSet(key, data, expiry, expired, oldest) ==
    [op |-> "set", key |-> key, data |-> data, expiry |-> expiry,
     expired |-> expired, oldest |-> oldest]
LastRead(op, key, ret, hydrated) ==
    [op |-> op, key |-> key, ret |-> ret, hydrated |-> hydrated]
LastCall(op, key, ret, id) == [op |-> op, key |-> key, ret |-> ret, id |-> id]
LastOp(op) == [op |-> op]

Install(S) ==
    /\ cache' = S.cache
    /\ cacheTimestamps' = S.cacheTimestamps
    /\ localStorage' = S.localStorage

\* the module-level `new CacheManager()`
CacheInit ==
    /\ cache = <<>>
    /\ cacheTimestamps = <<>>
    /\ localStorage = <<>>
    /\ now = 1
    /\ ticks = 0
    /\ calls = [i \in CallIds |-> NoCall]

\* `new VirtualScrollingManager(selector, itemHeight, bufferSize)` on a
\* container of the given height; VoucherManager has loaded nothing yet
RendererInit(itemHeight, bufferSize, clientHeight) ==
    /\ container = [scrollTop |-> 0, clientHeight |-> clientHeight]
    /\ vsm = VirtualScrollingManager(itemHeight, bufferSize, container)
    /\ listeners = setupEventListeners({}, 1)
    /\ instance = 1
    /\ destroyed = FALSE
    /\ allVouchersCache = <<>>
    /\ loaded = FALSE
    /\ shared = FALSE

\* a call of performVoucherSearch suspended on getDocs: the query it read when
\* it started, the documents the request will return, and whether it started
\* after handleAddVoucher had invalidated the cache
Search(pc, query, querySnapshot, later) ==
    [pc |-> pc, query |-> query, querySnapshot |-> querySnapshot, later |-> later]
NoSearch == Search("idle", <<>>, <<>>, FALSE)
FreeIds(S) == {id \in SearchIds : S[id].pc = "idle"}

\* performVoucherSearch up to its first suspension: value is the value of the
\* search input, isLoaded tells whether
\* this.allVouchersCache is an array, all is that array, docs are the
\* documents of the remote collection
performVoucherSearch(M, S, value, isLoaded, all, docs, later) ==
    LET voucherSearchQuery == trim(value)
        id == CHOOSE i \in FreeIds(S) : \A j \in FreeIds(S) : i <= j
    IN  IF voucherSearchQuery = <<>> \/ ~Truthy(M.currentUserId)
        THEN [vm |-> M, searches |-> S, op |-> "return"]
        ELSE IF isLoaded
             THEN [vm       |-> searchCached(M, all, voucherSearchQuery),
                   searches |-> S,
                   op       |-> "search"]
             ELSE [vm       |-> [M EXCEPT !.message = "loading"],
                   searches |-> [S EXCEPT ![id] =
                                   Search("getDocs", voucherSearchQuery, docs, later)],
                   op       |-> "getDocs"]

\* a finished search: the query it read, the collection it went through, and
\* whether it started after handleAddVoucher had invalidated the cache
LastSearch(query, all, later) ==
    [op |-> "search", query |-> query, all |-> all, later |-> later]

\* an input event, and whether a timer of the search was pending when it came
LastInput(pending) == [op |-> "input", pending |-> pending]

\* the audit of the calls: the keystrokes of the burst under way and the calls
\* of performVoucherSearch it led to (2 stands for 2 or more), whether Enter
\* ended it, the query the last call read, the query whose results were
\* applied last, the getDocs requests since the cache was last invalidated,
\* whether handleAddVoucher has invalidated the cache, and where the cached
\* array came from
Audit(keys, made, entered, queried, applied, fetches, invalidated, source) ==
    [keys |-> keys, calls |-> made, entered |-> entered, queried |-> queried,
     applied |-> applied, fetches |-> fetches, invalidated |-> invalidated,
     source |-> source]

\* the audit after a call of performVoucherSearch that returned r
Called(a, r, value) ==
    [a EXCEPT !.calls   = Min(a.calls + 1, 2),
              !.queried = trim(value),
              !.applied = IF r.op = "search" THEN trim(value) ELSE a.applied,
              !.fetches = IF r.op = "getDocs" THEN a.fetches + 1 ELSE a.fetches]

\* what a call of performVoucherSearch that returned r leaves as the last
\* operation
LastCalled(r, value, all, later) ==
    IF r.op = "search" THEN LastSearch(trim(value), all, later) ELSE LastOp(r.op)

\* the page with VoucherManager initialized for a user and AutoSaveManager
\* constructed, over a remote collection of the given documents
SearchInit(docs) ==
    /\ voucherManager = VoucherManager
    /\ searchInput = <<>>
    /\ timers = {}
    /\ searches = [id \in SearchIds |-> NoSearch]
    /\ remote = [docs |-> docs, adding |-> FALSE]
    /\ autoSave = AutoSaveManager
    /\ audit = Audit(0, 0, FALSE, <<>>, <<>>, 0, FALSE, "none")
    /\ retrying = NoRetry

\* the same page with VoucherManager initialized with the given user id
SessionInit(docs, userId) ==
    /\ voucherManager = initialize(userId)
    /\ searchInput = <<>>
    /\ timers = {}
    /\ searches = [id \in SearchIds |-> NoSearch]
    /\ remote = [docs |-> docs, adding |-> FALSE]
    /\ autoSave = AutoSaveManager
    /\ audit = Audit(0, 0, FALSE, <<>>, <<>>, 0, FALSE, "none")
    /\ retrying = NoRetry

\* the application as AppController sets it up
Init ==
    /\ CacheInit
    /\ RendererInit(DefaultItemHeight, DefaultBufferSize, DefaultClientHeight)
    /\ SearchInit(RemoteDocs)
    /\ last = LastOp("init")

\* a renderer constructed with arguments and on a container of the caller's
\* choice
InitRender ==
    /\ CacheInit
    /\ \E itemHeight \in ItemHeights, bufferSize \in BufferSizes,
          clientHeight \in ClientHeights :
          RendererInit(itemHeight, bufferSize, clientHeight)
    /\ SearchInit(RemoteDocs)
    /\ last = LastOp("init")

\* Date.now() moves forward between two operations
Tick(d) ==
    /\ ticks < MaxTicks
    /\ now' = now + d
    /\ ticks' = ticks + 1
    /\ UNCHANGED <<cache, cacheTimestamps, localStorage, calls, last>>
    /\ UNCHANGED <<rendererVars, searchVars>>

\* page reload: the module is evaluated again, `new CacheManager()` starts
\* with empty Maps, pending promises are gone, localStorage persists; the
\* reload takes d milliseconds
Reload(d) ==
    /\ ticks < MaxTicks
    /\ now' = now + d
    /\ ticks' = ticks + 1
    /\ cache' = <<>>
    /\ cacheTimestamps' = <<>>
    /\ calls' = [i \in CallIds |-> NoCall]
    /\ last' = LastOp("reload")
    /\ UNCHANGED localStorage
    /\ UNCHANGED <<rendererVars, searchVars>>

\* last records how many entries the cleanup of this set removed as expired
\* and how many as oldest
CallSet(key, data, expiry, ok) ==
    LET S1 == setEntry(Cur, key, data, now)
        S3 == set(Cur, key, data, expiry, now, ok)
        expired == IF Size(S1) > maxCacheSize THEN Len(expiredKeys(S1, now)) ELSE 0
    IN  /\ Install(S3)
        /\ last' = LastSet(key, data, expiry, expired, Size(S1) - Size(S3) - expired)
        /\ UNCHANGED <<now, ticks, calls, rendererVars, searchVars>>

CallGet(key) ==
    LET r == get(Cur, key, now)
    IN  /\ Install(r.st)
        /\ last' = LastRead("get", key, r.ret,
                            ~MapHas(cacheTimestamps, key) /\ r.ret # Null)
        /\ UNCHANGED <<now, ticks, calls, rendererVars, searchVars>>

CallHas(key) ==
    LET r == has(Cur, key, now)
    IN  /\ Install(r.st)
        /\ last' = LastRead("has", key, r.ret,
                            ~MapHas(cacheTimestamps, key) /\ r.ret = 1)
        /\ UNCHANGED <<now, ticks, calls, rendererVars, searchVars>>

CallDelete(key) ==
    /\ Install(delete(Cur, key))
    /\ last' = LastRead("delete", key, Null, FALSE)
    /\ UNCHANGED <<now, ticks, calls, rendererVars, searchVars>>

CallClear ==
    /\ Install(clear(Cur))
    /\ last' = LastOp("clear")
    /\ UNCHANGED <<now, ticks, calls, rendererVars, searchVars>>

\* cacheUtils.invalidatePattern is called
CallInvalidatePattern(pattern) ==
    /\ Install(invalidatePattern(Cur, pattern))
    /\ last' = [op |-> "invalidatePattern", pattern |-> pattern,
                before |-> Cur]
    /\ UNCHANGED <<now, ticks, calls, rendererVars, searchVars>>

\* cacheUtils.getOrFetch is called: a hit returns at once, a miss invokes
\* fetchFunction and awaits it
FetchStart(id, key) ==
    LET r == getOrFetch(Cur, key, now)
    IN  /\ calls[id].pc # "await"
        /\ Install(r.st)
        /\ calls' = [calls EXCEPT ![id] =
                        Call(IF r.invoked THEN "await" ELSE "done", key, FALSE)]
        /\ last' = LastCall(IF r.invoked THEN "miss" ELSE "hit", key, r.ret, id)
        /\ UNCHANGED <<now, ticks, rendererVars, searchVars>>

\* another call for the same key is awaiting its loader
HasPeer(id) ==
    \E j \in CallIds \ {id} : calls[j].pc = "await" /\ calls[j].key = calls[id].key

\* the awaited fetchFunction resolves with data; the call stores it with the
\* expiry it was given and returns it
FetchResolve(id, data, expiry, ok) ==
    LET c == calls[id]
    IN  /\ c.pc = "await"
        /\ Install(getOrFetchThen(Cur, c.key, data, expiry, now, ok))
        /\ calls' = [calls EXCEPT ![id] = Call("done", c.key, HasPeer(id))]
        /\ last' = LastCall("resolve", c.key, data, id)
        /\ UNCHANGED <<now, ticks, rendererVars, searchVars>>

\* the awaited fetchFunction rejects: the catch block rethrows the error
FetchReject(id) ==
    LET c == calls[id]
    IN  /\ c.pc = "await"
        /\ Install(getOrFetchCatch(Cur, c.key))
        /\ calls' = [calls EXCEPT ![id] = Call("failed", c.key, HasPeer(id))]
        /\ last' = LastCall("reject", c.key, Null, id)
        /\ UNCHANGED <<now, ticks, rendererVars, searchVars>>

\* another component of the page stores an item under its own key
OtherSetItem(k) ==
    /\ localStorage' = FnSet(localStorage, k, OtherItem)
    /\ last' = LastOp("other")
    /\ UNCHANGED <<cache, cacheTimestamps, now, ticks, calls, rendererVars, searchVars>>

\* the durable copy of key is damaged: what is stored is no longer the JSON of
\* an entry
Corrupt(key) ==
    /\ StorageKey(key) \in DOMAIN localStorage
    /\ Parses(localStorage[StorageKey(key)])
    /\ localStorage' = FnSet(localStorage, StorageKey(key), Unparsable)
    /\ last' = LastOp("corrupt")
    /\ UNCHANGED <<cache, cacheTimestamps, now, ticks, calls, rendererVars, searchVars>>

\* what a renderer operation did last: updated tells whether it ran
\* updateVisibleItems
LastRender(op, updated) == [op |-> op, updated |-> updated]
\* the same for a method that was given an index
LastEdit(op, updated, index) == [op |-> op, updated |-> updated, index |-> index]

\* this.data and VoucherManager.allVouchersCache are one Array object while
\* shared: what a method does to this.data in place is done to both
InstallData(V) ==
    /\ vsm' = V
    /\ allVouchersCache' = IF shared THEN V.data ELSE allVouchersCache
    /\ container' = Layout(V, container, TRUE)

\* VoucherManager.loadAllVouchersCache, once
LoadAllVouchersCache(vouchers) ==
    /\ ~loaded
    /\ allVouchersCache' = vouchers
    /\ loaded' = TRUE
    /\ last' = LastOp("loadAllVouchersCache")
    /\ UNCHANGED <<cacheVars, searchVars, vsm, container, listeners, instance, destroyed, shared>>

\* AppController.loadVouchersForDate: setData with an array built for the call
LoadVouchersForDate(vouchers) ==
    /\ ~destroyed
    /\ vsm' = setData(vsm, vouchers)
    /\ container' = Layout(vsm', container, TRUE)
    /\ shared' = FALSE
    /\ last' = LastRender("setData", TRUE)
    /\ UNCHANGED <<cacheVars, searchVars, listeners, instance, destroyed, allVouchersCache, loaded>>

\* AppController.filterVouchersByTechnician: setData with the filtered copy,
\* or with allVouchersCache itself when no technician is selected
FilterVouchersByTechnician(selectedTechnician) ==
    LET allVouchers      == IF loaded THEN allVouchersCache ELSE <<>>
        filteredVouchers == IF selectedTechnician # ""
                            THEN SelectSeq(allVouchers,
                                   LAMBDA v : v.technicianName = selectedTechnician)
                            ELSE allVouchers
    IN  /\ ~destroyed
        /\ vsm' = setData(vsm, filteredVouchers)
        /\ container' = Layout(vsm', container, TRUE)
        /\ shared' = (loaded /\ selectedTechnician = "")
        /\ last' = LastRender("setData", TRUE)
        /\ UNCHANGED <<cacheVars, searchVars, listeners, instance, destroyed, allVouchersCache, loaded>>

\* the user or a scrollTo method moves the container to y and the browser
\* dispatches the scroll event to the listeners of the container
Scroll(y) ==
    LET c == [container EXCEPT !.scrollTop = y]
    IN  /\ y <= maxScrollTop(vsm, container, ~destroyed)
        /\ container' = c
        /\ vsm' = IF ListenersOf(listeners, instance) # {}
                  THEN handleScroll(vsm, c) ELSE vsm
        /\ last' = LastRender("scroll", ListenersOf(listeners, instance) # {}
                                          /\ handleScroll(vsm, c).scrollTop = y
                                          /\ vsm.scrollTop # y)
        /\ UNCHANGED <<cacheVars, searchVars, listeners, instance, destroyed,
                       allVouchersCache, loaded, shared>>

\* the window is resized, the container with it, and the browser dispatches
\* the resize event to the listeners of window
Resize(clientHeight) ==
    LET c == Layout(vsm, [container EXCEPT !.clientHeight = clientHeight], ~destroyed)
    IN  /\ clientHeight # container.clientHeight
        /\ container' = c
        /\ vsm' = IF ListenersOf(listeners, instance) # {}
                  THEN onResize(vsm, c) ELSE vsm
        /\ last' = LastRender("resize", ListenersOf(listeners, instance) # {})
        /\ UNCHANGED <<cacheVars, searchVars, listeners, instance, destroyed,
                       allVouchersCache, loaded, shared>>

AddItem(item, index) ==
    /\ ~destroyed
    /\ Len(vsm.data) < MaxLen
    /\ InstallData(addItem(vsm, item, index))
    /\ last' = LastEdit("addItem", TRUE, index)
    /\ UNCHANGED <<cacheVars, searchVars, listeners, instance, destroyed, loaded, shared>>

RemoveItem(index) ==
    /\ ~destroyed
    /\ InstallData(removeItem(vsm, index))
    /\ last' = LastEdit("removeItem", index < Len(vsm.data), index)
    /\ UNCHANGED <<cacheVars, searchVars, listeners, instance, destroyed, loaded, shared>>

UpdateItem(index, newData) ==
    /\ ~destroyed
    /\ InstallData(updateItem(vsm, index, newData))
    /\ last' = LastEdit("updateItem", FALSE, index)
    /\ UNCHANGED <<cacheVars, searchVars, listeners, instance, destroyed, loaded, shared>>

SetItemHeight(newHeight) ==
    /\ ~destroyed
    /\ vsm' = setItemHeight(vsm, newHeight)
    /\ container' = Layout(vsm', container, TRUE)
    /\ last' = LastRender("setItemHeight", TRUE)
    /\ UNCHANGED <<cacheVars, searchVars, listeners, instance, destroyed,
                   allVouchersCache, loaded, shared>>

\* scrollToIndex, and the scroll event the browser dispatches to the
\* listeners of the container when the assignment has moved it
ScrollToIndex(index) ==
    LET c     == scrollToIndex(vsm, container, index)
        moved == c.scrollTop # container.scrollTop
    IN  /\ ~destroyed
        /\ container' = c
        /\ vsm' = IF moved /\ ListenersOf(listeners, instance) # {}
                  THEN handleScroll(vsm, c) ELSE vsm
        /\ last' = LastEdit("scrollToIndex", moved, index)
        /\ UNCHANGED <<cacheVars, searchVars, listeners, instance, destroyed,
                       allVouchersCache, loaded, shared>>

\* VirtualScrollingManager.clear: this.data becomes a new empty Array
Clear ==
    /\ ~destroyed
    /\ vsm' = clearItems(vsm)
    /\ container' = Layout(vsm', container, TRUE)
    /\ shared' = FALSE
    /\ last' = LastRender("clear", FALSE)
    /\ UNCHANGED <<cacheVars, searchVars, listeners, instance, destroyed, allVouchersCache, loaded>>

\* VirtualScrollingManager.destroy: the spacer leaves the container
Destroy ==
    /\ ~destroyed
    /\ listeners' = destroyListeners(listeners)
    /\ destroyed' = TRUE
    /\ container' = Layout(vsm, container, FALSE)
    /\ last' = LastRender("destroy", FALSE)
    /\ UNCHANGED <<cacheVars, searchVars, vsm, instance, allVouchersCache, loaded, shared>>

\* the outcome of a constructor call
LastNew(thrown, instanceOf, created) ==
    [op |-> "new", updated |-> FALSE, thrown |-> thrown, instance |-> instanceOf,
     created |-> created]

\* the next renderer is constructed, on the same container once the renderer
\* before it is destroyed, or with a selector that matches no element; the
\* caller assigns the instance only when the constructor returns
New(itemHeight, bufferSize, found) ==
    LET r == construct(listeners, container, instance + 1, itemHeight, bufferSize,
                       found)
    IN  /\ found => destroyed
        /\ instance < MaxInstances
        /\ listeners' = r.listeners
        /\ IF r.thrown
           THEN UNCHANGED <<instance, vsm, destroyed, shared>>
           ELSE /\ instance' = instance + 1
                /\ vsm' = r.vsm
                /\ destroyed' = FALSE
                /\ shared' = FALSE
        /\ last' = LastNew(r.thrown, r.vsm, r.created)
        /\ UNCHANGED <<cacheVars, searchVars, container, allVouchersCache, loaded>>

\* the user edits the search input to value and the browser dispatches the
\* input event to its listeners: the one of AutoSaveManager, registered when
\* the page was set up, then the one of VoucherManager
InputEvent(value) ==
    LET a     == scheduleAutoSave(autoSave, timers, {voucherManager.searchDebounceTimer})
        r     == handleSearchInput(voucherManager, a.timers, {a.autoSave.saveTimer}, value)
        burst == Pending(timers, "performVoucherSearch") # {}
    IN  /\ value # searchInput
        /\ searchInput' = value
        /\ autoSave' = a.autoSave
        /\ voucherManager' = r.vm
        /\ timers' = r.timers
        /\ audit' = IF trim(value) = <<>>
                    THEN [audit EXCEPT !.keys = 0, !.calls = 0, !.entered = FALSE,
                                       !.applied = <<>>]
                    ELSE IF burst
                         THEN [audit EXCEPT !.keys = Min(audit.keys + 1, 2)]
                         ELSE [audit EXCEPT !.keys = 1, !.calls = 0, !.entered = FALSE]
        /\ last' = LastInput(burst)
        /\ UNCHANGED <<cacheVars, rendererVars, retrying, searches, remote>>

\* the debounce delay has passed for a pending timer of the search: its
\* callback calls performVoucherSearch
SearchTimerFire ==
    \E t \in Pending(timers, "performVoucherSearch") :
        LET r == performVoucherSearch(voucherManager, searches, searchInput,
                                      loaded, allVouchersCache, remote.docs,
                                      audit.invalidated)
        IN  /\ trim(searchInput) # <<>> /\ ~loaded => FreeIds(searches) # {}
            /\ timers' = timers \ {t}
            /\ voucherManager' = r.vm
            /\ searches' = r.searches
            /\ audit' = Called(audit, r, searchInput)
            /\ last' = LastCalled(r, searchInput, allVouchersCache, audit.invalidated)
            /\ UNCHANGED <<cacheVars, rendererVars, retrying, searchInput, remote, autoSave>>

\* the user presses Enter in the search input: the keypress listener
EnterKey ==
    LET burst == Pending(timers, "performVoucherSearch") # {}
        r == performVoucherSearch(voucherManager, searches, searchInput,
                                  loaded, allVouchersCache, remote.docs,
                                  audit.invalidated)
        a == IF burst THEN [audit EXCEPT !.entered = TRUE]
             ELSE [audit EXCEPT !.keys = 0, !.calls = 0, !.entered = FALSE]
    IN  /\ trim(searchInput) # <<>> /\ ~loaded => FreeIds(searches) # {}
        /\ timers' = keypressEnter(voucherManager, timers)
        /\ voucherManager' = r.vm
        /\ searches' = r.searches
        /\ audit' = Called(a, r, searchInput)
        /\ last' = LastCalled(r, searchInput, allVouchersCache, audit.invalidated)
        /\ UNCHANGED <<cacheVars, rendererVars, retrying, searchInput, remote, autoSave>>

\* the getDocs request of call id settles: loadAllVouchersCache stores the
\* documents, or the empty array of its catch block, and performVoucherSearch
\* goes on with the query it read when it started
GetDocsSettle(id, ok) ==
    LET s   == searches[id]
        all == loadedVouchers(s.querySnapshot, ok)
    IN  /\ s.pc = "getDocs"
        /\ allVouchersCache' = all
        /\ loaded' = TRUE
        /\ shared' = FALSE
        /\ voucherManager' = searchCached(voucherManager, all, s.query)
        /\ searches' = [searches EXCEPT ![id] = NoSearch]
        /\ audit' = [audit EXCEPT !.applied = s.query,
                                  !.source = IF ok THEN "snapshot" ELSE "catch"]
        /\ last' = LastSearch(s.query, all, s.later)
        /\ UNCHANGED <<cacheVars, retrying, vsm, container, listeners, instance, destroyed,
                       searchInput, timers, remote, autoSave>>

\* the user submits the voucher form: handleAddVoucher up to its await of
\* addDoc
SubmitVoucher ==
    /\ ~remote.adding
    /\ NewDoc \notin {remote.docs[i] : i \in DOMAIN remote.docs}
    /\ remote' = [remote EXCEPT !.adding = TRUE]
    /\ last' = LastOp("handleAddVoucher")
    /\ UNCHANGED <<cacheVars, rendererVars, retrying, voucherManager, searchInput, timers,
                   searches, autoSave, audit>>

\* addDoc settles: the document is in the collection and handleAddVoucher
\* invalidates the cache, or the request has failed and the catch block runs
AddDocSettle(ok) ==
    /\ remote.adding
    /\ remote' = [docs   |-> IF ok THEN Append(remote.docs, NewDoc) ELSE remote.docs,
                  adding |-> FALSE]
    /\ allVouchersCache' = IF ok THEN invalidateVoucherCache.allVouchersCache
                           ELSE allVouchersCache
    /\ loaded' = IF ok THEN invalidateVoucherCache.loaded ELSE loaded
    /\ shared' = IF ok THEN FALSE ELSE shared
    /\ audit' = IF ok THEN [audit EXCEPT !.fetches = 0, !.invalidated = TRUE,
                                         !.source = "none"]
                ELSE audit
    /\ last' = LastOp(IF ok THEN "invalidateVoucherCache" ELSE "addDocFailed")
    /\ UNCHANGED <<cacheVars, retrying, vsm, container, listeners, instance, destroyed,
                   voucherManager, searchInput, timers, searches, autoSave>>

\* an input or change event on another field AutoSaveManager listens to
FormInput ==
    LET r == scheduleAutoSave(autoSave, timers, {voucherManager.searchDebounceTimer})
    IN  /\ autoSave' = r.autoSave
        /\ timers' = r.timers
        /\ last' = LastOp("scheduleAutoSave")
        /\ UNCHANGED <<cacheVars, rendererVars, retrying, voucherManager, searchInput,
                       searches, remote, audit>>

\* the save interval has passed for a pending timer of AutoSaveManager
SaveTimerFire(hasFormData) ==
    \E t \in Pending(timers, "saveFormData") :
        /\ timers' = timers \ {t}
        /\ localStorage' = saveFormData(localStorage, hasFormData)
        /\ last' = LastOp("saveFormData")
        /\ UNCHANGED <<cache, cacheTimestamps, now, ticks, calls, retrying, rendererVars,
                       voucherManager, searchInput, searches, remote, autoSave,
                       audit>>

\* AutoSaveManager.setEnabled
SetEnabled(enabled) ==
    /\ enabled # autoSave.isEnabled
    /\ autoSave' = [autoSave EXCEPT !.isEnabled = enabled]
    /\ last' = LastOp("setEnabled")
    /\ UNCHANGED <<cacheVars, rendererVars, retrying, voucherManager, searchInput, timers,
                   searches, remote, audit>>

\* a caller hands an operation to ErrorHandler.retry
CallRetry(maxRetries, delay) ==
    /\ retrying.pc \in {"idle", "fulfilled", "rejected"}
    /\ retrying' = retry(maxRetries, delay)
    /\ last' = [op |-> "retry", maxRetries |-> maxRetries, delay |-> delay]
    /\ UNCHANGED <<cacheVars, rendererVars, voucherManager, searchInput, timers,
                   searches, remote, autoSave, audit>>

\* the promise of operation() is fulfilled with value
OperationResolve(value) ==
    /\ retrying.pc = "operation"
    /\ retrying' = retryReturn(retrying, value)
    /\ last' = [op |-> "operation", ok |-> TRUE, value |-> value]
    /\ UNCHANGED <<cacheVars, rendererVars, voucherManager, searchInput, timers,
                   searches, remote, autoSave, audit>>

\* operation() throws, or its promise is rejected, with error
OperationReject(error) ==
    /\ retrying.pc = "operation"
    /\ retrying' = retryCatch(retrying, error)
    /\ last' = [op |-> "operation", ok |-> FALSE, value |-> error]
    /\ UNCHANGED <<cacheVars, rendererVars, voucherManager, searchInput, timers,
                   searches, remote, autoSave, audit>>

\* the delay has passed and the timer of the catch block fires
RetryTimerFire ==
    /\ retrying.pc = "setTimeout"
    /\ retrying' = retryNext(retrying)
    /\ last' = [op |-> "timer", waited |-> retrying.waits[Len(retrying.waits)]]
    /\ UNCHANGED <<cacheVars, rendererVars, voucherManager, searchInput, timers,
                   searches, remote, autoSave, audit>>

\* the synchronous interface of CacheManager with the default expiry, and
\* page reloads
Next ==
    \/ \E d \in Deltas : Tick(d)
    \/ \E d \in Deltas : Reload(d)
    \/ \E key \in Keys, data \in Values, ok \in WriteOutcomes :
          CallSet(key, data, cacheExpiry, ok)
    \/ \E key \in Keys : CallGet(key)
    \/ \E key \in Keys : CallHas(key)
    \/ \E key \in Keys : CallDelete(key)
    \/ CallClear

Spec == Init /\ [][Next]_vars

\* eviction: set over one key more, with one payload and the default expiry,
\* and get as the reader that hydrates after a page reload
NextEvict ==
    \/ \E d \in Deltas : Tick(d)
    \/ Reload(1)
    \/ \E key \in EvictKeys, ok \in WriteOutcomes :
          CallSet(key, 1, cacheExpiry, ok)
    \/ \E key \in EvictKeys : CallGet(key)

SpecEvict == Init /\ [][NextEvict]_vars

\* the asynchronous interface of cacheUtils over two keys, beside set with a
\* ttl of the caller's choice and delete
NextFetch ==
    \/ \E d \in Deltas : Tick(d)
    \/ \E key \in FetchKeys, data \in Values, expiry \in Expiries, ok \in WriteOutcomes :
          CallSet(key, data, expiry, ok)
    \/ \E key \in FetchKeys : CallDelete(key)
    \/ \E id \in CallIds, key \in FetchKeys : FetchStart(id, key)
    \/ \E id \in CallIds, data \in Values, expiry \in Expiries, ok \in WriteOutcomes :
          FetchResolve(id, data, expiry, ok)
    \/ \E id \in CallIds : FetchReject(id)

SpecFetch == Init /\ [][NextFetch]_vars

\* the durable mirror: the synchronous interface over two keys and one payload
\* with writes that may throw, durable copies that may be damaged, and the
\* items of other components in the same localStorage
NextStore ==
    \/ \E d \in Deltas : Tick(d)
    \/ Reload(1)
    \/ \E key \in StoreKeys, ok \in StoreOutcomes :
          CallSet(key, 1, cacheExpiry, ok)
    \/ \E key \in StoreKeys : CallGet(key)
    \/ \E key \in StoreKeys : CallHas(key)
    \/ \E key \in StoreKeys : CallDelete(key)
    \/ CallClear
    \/ \E k \in OtherKeys : OtherSetItem(k)
    \/ \E key \in StoreKeys : Corrupt(key)

SpecStore == Init /\ [][NextStore]_vars

\* invalidation by pattern: set and get over keys with a common part, page
\* reloads, and invalidatePattern
NextInvalidate ==
    \/ \E d \in Deltas : Tick(d)
    \/ Reload(1)
    \/ \E key \in PatternKeys, ok \in WriteOutcomes :
          CallSet(key, 1, cacheExpiry, ok)
    \/ \E key \in PatternKeys : CallGet(key)
    \/ \E pattern \in Patterns : CallInvalidatePattern(pattern)

SpecInvalidate == Init /\ [][NextInvalidate]_vars

\* ErrorHandler.retry over an operation that resolves or throws, one call
\* after the other
NextRetry ==
    \/ \E maxRetries \in RetryCounts, delay \in RetryDelays : CallRetry(maxRetries, delay)
    \/ \E value \in Values : OperationResolve(value)
    \/ \E error \in Errors : OperationReject(error)
    \/ RetryTimerFire

SpecRetry == Init /\ [][NextRetry]_vars

\* the same with an operation that settles and timers that fire
SpecRetryLive ==
    /\ SpecRetry
    /\ WF_vars((\E value \in Values : OperationResolve(value))
                \/ (\E error \in Errors : OperationReject(error)))
    /\ WF_vars(RetryTimerFire)

\* the scroll positions the runs explore, in pixels
ScrollTops == 0..(MaxLen * 3)

\* the renderer: its methods and the events of its container and of window;
\* removeItem is given the first index and one past the longest list
NextRender ==
    \/ \E n \in 0..MaxLen : LoadVouchersForDate(DateVouchers(n))
    \/ \E y \in ScrollTops : Scroll(y)
    \/ \E clientHeight \in ClientHeights : Resize(clientHeight)
    \/ AddItem(NewVoucher, -1)
    \/ \E index \in {0, MaxLen} : RemoveItem(index)
    \/ UpdateItem(0, NewData)
    \/ \E newHeight \in ItemHeights : SetItemHeight(newHeight)
    \/ Clear

SpecRender == InitRender /\ [][NextRender]_vars

\* the life cycle of the renderer: destroy, construction of the next one on
\* the same container, and the events in between
NextLife ==
    \/ \E n \in 0..MaxLen : LoadVouchersForDate(DateVouchers(n))
    \/ \E y \in ScrollTops : Scroll(y)
    \/ \E clientHeight \in ClientHeights : Resize(clientHeight)
    \/ Destroy
    \/ \E itemHeight \in ItemHeights, bufferSize \in BufferSizes, found \in BOOLEAN :
          New(itemHeight, bufferSize, found)

SpecLife == Init /\ [][NextLife]_vars

\* the renderer fed by AppController from the list VoucherManager holds
NextShare ==
    \/ \E vouchers \in AllVouchers : LoadAllVouchersCache(vouchers)
    \/ \E n \in 0..2 : LoadVouchersForDate(DateVouchers(n))
    \/ \E selectedTechnician \in Technicians :
          FilterVouchersByTechnician(selectedTechnician)
    \/ \E index \in {-1, 0} : AddItem(NewVoucher, index)
    \/ \E index \in {0, 1} : RemoveItem(index)
    \/ UpdateItem(0, NewData)

SpecShare == Init /\ [][NextShare]_vars

\* the methods that are given an index: the first two indices and one past
\* the longest list for the edits, every index for scrollToIndex
NextEdit ==
    \/ \E n \in 0..2 : LoadVouchersForDate(DateVouchers(n))
    \/ \E index \in {-1, 0, 1} : AddItem(NewVoucher, index)
    \/ \E index \in {0, 1, MaxLen} : RemoveItem(index)
    \/ \E index \in {0, 1, MaxLen} : UpdateItem(index, NewData)
    \/ \E index \in 0..MaxLen : ScrollToIndex(index)
    \/ Clear

\* the renderer of AppController with a buffer of the caller's choice
InitEdit ==
    /\ CacheInit
    /\ \E bufferSize \in BufferSizes :
          RendererInit(DefaultItemHeight, bufferSize, DefaultClientHeight)
    /\ SearchInit(RemoteDocs)
    /\ last = LastOp("init")

SpecEdit == InitEdit /\ [][NextEdit]_vars

\* the search of VoucherManager with a cold cache and the voucher form: the
\* events of the page, the timers, and the requests that settle in any order
NextSearch ==
    \/ \E value \in SearchInputs : InputEvent(value)
    \/ SearchTimerFire
    \/ EnterKey
    \/ \E id \in SearchIds, ok \in BOOLEAN : GetDocsSettle(id, ok)
    \/ SubmitVoucher
    \/ \E ok \in BOOLEAN : AddDocSettle(ok)
    \/ \E hasFormData \in BOOLEAN : SaveTimerFire(hasFormData)

SpecSearch == Init /\ [][NextSearch]_vars

\* the same page with VoucherManager initialized with the id of the user or
\* with none
InitSession ==
    /\ CacheInit
    /\ RendererInit(DefaultItemHeight, DefaultBufferSize, DefaultClientHeight)
    /\ \E userId \in UserIds : SessionInit(RemoteDocs, userId)
    /\ last = LastOp("init")

\* a value of the search input that no voucher number contains
NoMatchInput == <<"1">>

NextSession ==
    \/ \E value \in {<<>>, <<"a">>, NoMatchInput} : InputEvent(value)
    \/ SearchTimerFire
    \/ EnterKey
    \/ \E id \in SearchIds, ok \in BOOLEAN : GetDocsSettle(id, ok)
    \/ SubmitVoucher
    \/ \E ok \in BOOLEAN : AddDocSettle(ok)
    \/ \E hasFormData \in BOOLEAN : SaveTimerFire(hasFormData)

SpecSession == InitSession /\ [][NextSession]_vars

\* the timers of the page: the search input and the voucher form edited side
\* by side
NextTimers ==
    \/ \E value \in SearchInputs : InputEvent(value)
    \/ SearchTimerFire
    \/ EnterKey
    \/ \E id \in SearchIds : GetDocsSettle(id, TRUE)
    \/ FormInput
    \/ \E hasFormData \in BOOLEAN : SaveTimerFire(hasFormData)
    \/ \E enabled \in BOOLEAN : SetEnabled(enabled)

SpecTimers == Init /\ [][NextTimers]_vars

\* the collections the search may find cached: up to one record more than
\* the ceiling, each with one of the numbers or with none
VoucherNumbers == {<<"A">>, <<"a", "B">>, <<"b">>}
RecordsAt(i) == {SearchVoucher(i, n) : n \in VoucherNumbers} \cup {Unnumbered(i)}
Collections ==
    UNION {{all \in [1..n -> UNION {RecordsAt(i) : i \in 1..n}] :
               \A i \in 1..n : all[i] \in RecordsAt(i)} : n \in 0..(MaxResults + 1)}
\* values the user gives the search input
QueryInputs == {<<>>, <<"a">>, <<"A", " ">>, <<" ", "b">>, <<"a", "b">>, <<"1">>}

\* the page after a search has loaded the collection
InitQuery ==
    /\ CacheInit
    /\ container = [scrollTop |-> 0, clientHeight |-> DefaultClientHeight]
    /\ vsm = VirtualScrollingManager(DefaultItemHeight, DefaultBufferSize, container)
    /\ listeners = setupEventListeners({}, 1)
    /\ instance = 1
    /\ destroyed = FALSE
    /\ shared = FALSE
    /\ loaded = TRUE
    /\ allVouchersCache \in Collections
    /\ SearchInit(allVouchersCache)
    /\ last = LastOp("init")

\* the search over a cached collection: every call runs to its end at once
NextQuery ==
    \/ \E value \in QueryInputs : InputEvent(value)
    \/ SearchTimerFire
    \/ EnterKey

SpecQuery == InitQuery /\ [][NextQuery]_vars

----------------------------------------------------------------------------
(* Properties of the Cache Store *)

InMemory(key) == MapHas(cacheTimestamps, key)
InStorage(key) == StorageKey(key) \in DOMAIN localStorage
StoredAt(key) == MapGet(cacheTimestamps, key)

\* C1 (cache expiry): in every reachable state get(key) returns the payload of
\* the entry exactly while now - stored_at <= cacheExpiry and null once it is
\* larger, for an entry held in memory and for one hydrated from localStorage;
\* hydration installs the timestamp of the durable copy, and no in-memory
\* entry carries a timestamp older than that of its durable copy or a
\* timestamp in the future.
C1_CacheExpiry ==
    \A key \in Keys :
        LET r == get(Cur, key, now)
        IN  /\ InMemory(key) =>
                /\ r.ret = IF now - StoredAt(key) <= cacheExpiry
                           THEN cache[key] ELSE Null
                /\ StoredAt(key) <= now
                /\ InStorage(key) =>
                      JSONparse(localStorage[StorageKey(key)]).timestamp <= StoredAt(key)
            /\ (~InMemory(key) /\ InStorage(key)) =>
                LET stored == JSONparse(localStorage[StorageKey(key)])
                IN  /\ r.ret = IF now - stored.timestamp <= cacheExpiry
                               THEN stored.data ELSE Null
                    /\ r.ret # Null =>
                          MapGet(r.st.cacheTimestamps, key) = stored.timestamp
            /\ (~InMemory(key) /\ ~InStorage(key)) => r.ret = Null

\* C1 witness: get has just returned a payload hydrated from localStorage at
\* the very boundary now - stored_at = cacheExpiry.
C1_Witness ==
    /\ last.op = "get"
    /\ last.ret # Null
    /\ last.hydrated
    /\ InMemory(last.key)
    /\ now - StoredAt(last.key) = cacheExpiry

\* C2 (per-entry ttl): the entry written by the last set is valid exactly
\* while now - stored_at <= the expiry passed to that set.
C2_PerEntryTtl ==
    (last.op = "set" /\ InMemory(last.key)) =>
        (get(Cur, last.key, now).ret # Null
            <=> now - StoredAt(last.key) <= last.expiry)

\* C3 (eviction bound): after a set has returned, the number of in-memory
\* entries is at most maxCacheSize, whatever was hydrated before it.
C3_EvictionBound ==
    last.op = "set" => Size(Cur) <= maxCacheSize

\* C3 witness: a set has just removed two entries to get back under the cap.
C3_Witness ==
    /\ last.op = "set"
    /\ last.expired + last.oldest >= 2
    /\ Size(Cur) = maxCacheSize

\* the in-memory keys of a cache state, and their timestamps
KeysIn(S) == DOMAIN S.cache
StampIn(S, key) == MapGet(S.cacheTimestamps, key)
PosIn(S, key) == CHOOSE i \in 1..Len(S.cacheTimestamps) : S.cacheTimestamps[i][1] = key

\* C4 (eviction order): for every reachable state and every key, a set that
\* leaves the cache over maxCacheSize removes every expired entry, removes
\* exactly the surplus of non-expired entries, never removes an entry while
\* keeping one stored strictly earlier, and among entries stored at the same
\* millisecond removes those inserted first; a set that stays within the cap
\* removes nothing.
C4_EvictionOrder ==
    \A key \in EvictKeys :
        LET pre     == setEntry(Cur, key, 1, now)
            post    == set(Cur, key, 1, cacheExpiry, now, TRUE)
            removed == KeysIn(pre) \ KeysIn(post)
            expired == {k \in KeysIn(pre) : now - StampIn(pre, k) > cacheExpiry}
            live    == KeysIn(pre) \ expired
        IN  /\ KeysIn(post) \subseteq KeysIn(pre)
            /\ Size(pre) <= maxCacheSize => removed = {}
            /\ Size(pre) > maxCacheSize =>
                /\ expired \subseteq removed
                /\ Cardinality(removed \cap live)
                      = Max(0, Cardinality(live) - maxCacheSize)
                /\ \A r \in removed \cap live, q \in KeysIn(post) :
                      /\ StampIn(pre, q) >= StampIn(pre, r)
                      /\ StampIn(pre, q) = StampIn(pre, r)
                            => PosIn(pre, r) < PosIn(pre, q)

\* C4 witness: a set has just removed an expired entry and, still over the
\* cap, an oldest one as well.
C4_Witness ==
    /\ last.op = "set"
    /\ last.expired >= 1
    /\ last.oldest >= 1

\* C5 (size invariant): in every reachable state the in-memory entry count is
\* at most maxCacheSize.
C5_SizeInvariant == Size(Cur) <= maxCacheSize

\* C6 (read-your-write): for every reachable state, every key and payload, and
\* whether or not the localStorage write succeeds, right after set(key, v) the
\* key is held in memory with payload v and the timestamp of the set, get(key)
\* returns v and has(key) is true.
C6_ReadYourWrite ==
    \A key \in Keys, v \in Values, ok \in BOOLEAN :
        LET S1 == set(Cur, key, v, cacheExpiry, now, ok)
        IN  /\ key \in KeysIn(S1)
            /\ S1.cache[key] = v
            /\ StampIn(S1, key) = now
            /\ get(S1, key, now).ret = v
            /\ has(S1, key, now).ret = 1

\* C6 witness: a set has just evicted an oldest entry while another entry
\* carries the same timestamp as the key just written, which is still held.
C6_Witness ==
    /\ last.op = "set"
    /\ last.oldest >= 1
    /\ InMemory(last.key)
    /\ cache[last.key] = last.data
    /\ \E k \in Keys \ {last.key} : InMemory(k) /\ StoredAt(k) = StoredAt(last.key)

\* C7, as claimed (has and get agree on the result and on the post-state):
\* has(key) is true exactly when get(key) returns a payload, and both leave
\* the same cache state.
C7_HasEqualsGet ==
    \A key \in Keys :
        LET g == get(Cur, key, now)
            h == has(Cur, key, now)
        IN  /\ (h.ret = 1) <=> (g.ret # Null)
            /\ h.st = g.st

\* C7, amended: has(key) is true exactly when get(key) returns a payload; the
\* two leave the same cache state unless key has an expired in-memory entry,
\* which get deletes from memory and localStorage and has leaves in place.
C7_HasAgreesWithGet ==
    \A key \in Keys :
        LET g == get(Cur, key, now)
            h == has(Cur, key, now)
        IN  /\ (h.ret = 1) <=> (g.ret # Null)
            /\ IF InMemory(key) /\ now - StoredAt(key) > cacheExpiry
               THEN h.st = Cur /\ g.st = delete(Cur, key) /\ h.st # g.st
               ELSE h.st = g.st

\* C7 witness: has has just answered false for an expired in-memory entry,
\* which is still held.
C7_Witness ==
    /\ last.op = "has"
    /\ last.ret = 0
    /\ InMemory(last.key)
    /\ now - StoredAt(last.key) > cacheExpiry

\* C8 (getOrFetch hit): a getOrFetch call invokes the loader exactly when its
\* lookup found no valid entry, whatever the payload of a valid entry is.
C8_FetchOnlyOnMiss ==
    last.op \in {"hit", "miss"} => (last.op = "miss" <=> last.ret = Null)

\* C9 (loader failure): the step in which an awaited loader fails marks the
\* call as failed and changes neither the in-memory Maps nor localStorage, so
\* a getOrFetch on the same key invokes the loader after it exactly when it
\* would have before it.
C9_FailureStoresNothing ==
    [][\A id \in CallIds :
          (calls[id].pc = "await" /\ calls'[id].pc # "await" /\ last'.op = "reject") =>
              /\ calls'[id].pc = "failed"
              /\ last'.ret = Null
              /\ cache' = cache
              /\ cacheTimestamps' = cacheTimestamps
              /\ localStorage' = localStorage
              /\ getOrFetch(Cur, calls[id].key, now)'
                    = getOrFetch(Cur, calls[id].key, now)]_vars

\* C9 witness: a loader has just failed for a key that another call stored in
\* the meantime; the entry is still held and the call is marked failed.
C9_Witness ==
    /\ last.op = "reject"
    /\ calls[last.id].pc = "failed"
    /\ InMemory(last.key)

\* the call that has just completed overlapped with an earlier call for the
\* same key, which completed while this one was awaiting its loader
Overlapped ==
    \E j \in CallIds \ {last.id} :
        calls[j].pc = "done" /\ calls[j].key = last.key /\ calls[j].peer

\* C10 (no coalescing): when the second of two overlapping getOrFetch calls
\* for the same key completes, both loaders have run, the cache holds exactly
\* the value of the call that completed last, and get returns it for as long
\* as the entry is within cacheExpiry.
C10_LastLoaderWins ==
    (last.op = "resolve" /\ Overlapped) =>
        /\ InMemory(last.key)
        /\ cache[last.key] = last.ret
        /\ now - StoredAt(last.key) <= cacheExpiry
              => get(Cur, last.key, now).ret = last.ret

\* C10 witness: the second of two overlapping calls for one key has just
\* completed.
C10_Witness ==
    /\ last.op = "resolve"
    /\ Overlapped
    /\ calls[last.id].pc = "done"

----------------------------------------------------------------------------
(* Properties of the durable mirror *)

\* the durable copy of key is present and is the JSON of an entry
Hydratable(key) ==
    InStorage(key) /\ Parses(localStorage[StorageKey(key)])

\* the durable copy of key is present and JSON.parse throws on it
Damaged(key) ==
    InStorage(key) /\ ~Parses(localStorage[StorageKey(key)])

\* C11 (durable-store failures): for every reachable state, key and payload, a
\* set whose localStorage write throws still stores the entry in memory with
\* the time of the set, writes nothing to localStorage, and get and has then
\* find the entry; a get or has that has to read a durable copy on which
\* JSON.parse throws returns a miss (null, false) and changes nothing.
C11_StoreFailuresSwallowed ==
    \A key \in StoreKeys :
        /\ \A v \in Values :
              LET S1 == set(Cur, key, v, cacheExpiry, now, FALSE)
              IN  /\ key \in KeysIn(S1)
                  /\ S1.cache[key] = v
                  /\ StampIn(S1, key) = now
                  /\ DOMAIN S1.localStorage \subseteq DOMAIN localStorage
                  /\ \A k \in DOMAIN S1.localStorage :
                        S1.localStorage[k] = localStorage[k]
                  /\ get(S1, key, now) = [st |-> S1, ret |-> v]
                  /\ has(S1, key, now) = [st |-> S1, ret |-> 1]
        /\ (~InMemory(key) /\ Damaged(key)) =>
              /\ get(Cur, key, now) = [st |-> Cur, ret |-> Null]
              /\ has(Cur, key, now) = [st |-> Cur, ret |-> 0]

\* C11 witness: a set whose localStorage write threw has just returned (the
\* key is held in memory and has no durable copy) while the durable copy of
\* another key, absent from memory, is damaged.
C11_Witness ==
    /\ last.op = "set"
    /\ InMemory(last.key)
    /\ cache[last.key] = last.data
    /\ ~InStorage(last.key)
    /\ \E k \in StoreKeys \ {last.key} : ~InMemory(k) /\ Damaged(k)

\* C12 (hydration): for every reachable state and every key that has no
\* in-memory entry and a parsable durable copy, get returns the stored payload
\* and copies it into memory with the timestamp of the durable copy, leaving
\* localStorage and the other in-memory entries as they are, when
\* now - timestamp <= cacheExpiry; otherwise it returns null, removes the
\* durable copy and leaves memory without the key.
C12_Hydration ==
    \A key \in StoreKeys :
        (~InMemory(key) /\ Hydratable(key)) =>
            LET stored == JSONparse(localStorage[StorageKey(key)])
                r      == get(Cur, key, now)
            IN  IF now - stored.timestamp <= cacheExpiry
                THEN /\ r.ret = stored.data
                     /\ r.st.cache = FnSet(cache, key, stored.data)
                     /\ r.st.cacheTimestamps
                           = Append(cacheTimestamps, <<key, stored.timestamp>>)
                     /\ r.st.localStorage = localStorage
                ELSE /\ r.ret = Null
                     /\ r.st.cache = cache
                     /\ r.st.cacheTimestamps = cacheTimestamps
                     /\ key \notin KeysIn(r.st)
                     /\ r.st.localStorage
                           = FnDelete(localStorage, StorageKey(key))

\* C12 witness: get has just hydrated an entry whose durable copy was written
\* before the page was loaded; the entry carries that earlier timestamp.
C12_Witness ==
    /\ last.op = "get"
    /\ last.hydrated
    /\ last.ret # Null
    /\ InMemory(last.key)
    /\ StoredAt(last.key) < now
    /\ Hydratable(last.key)
    /\ JSONparse(localStorage[StorageKey(last.key)]).timestamp = StoredAt(last.key)

\* C13 (delete): for every reachable state and key, delete(key) leaves neither
\* an in-memory entry nor a durable copy of key, keeps every other in-memory
\* entry (payload, timestamp and Map order) and every other localStorage item,
\* and a second delete(key) changes nothing.
C13_DeleteIdempotent ==
    \A key \in StoreKeys :
        LET D1 == delete(Cur, key)
            D2 == delete(D1, key)
        IN  /\ D2 = D1
            /\ key \notin KeysIn(D1)
            /\ ~MapHas(D1.cacheTimestamps, key)
            /\ StorageKey(key) \notin DOMAIN D1.localStorage
            /\ KeysIn(D1) = KeysIn(Cur) \ {key}
            /\ \A k \in KeysIn(D1) : D1.cache[k] = cache[k]
            /\ D1.cacheTimestamps
                  = SelectSeq(cacheTimestamps, LAMBDA e : e[1] # key)
            /\ DOMAIN D1.localStorage = DOMAIN localStorage \ {StorageKey(key)}
            /\ \A k \in DOMAIN D1.localStorage :
                  D1.localStorage[k] = localStorage[k]

\* C13 witness: delete has just returned; its key is gone from memory and from
\* localStorage while another key is still held in both.
C13_Witness ==
    /\ last.op = "delete"
    /\ ~InMemory(last.key)
    /\ ~InStorage(last.key)
    /\ \E k \in StoreKeys \ {last.key} : InMemory(k) /\ InStorage(k)

\* C14 (clear): for every reachable state, clear() leaves both in-memory Maps
\* empty and no durable copy of any cache key, and every item another
\* component stored under its own key (errorLog, voucher_autosave) is still
\* there with the same content; clear() adds nothing to localStorage.
C14_ClearNamespace ==
    LET C == clear(Cur)
    IN  /\ KeysIn(C) = {}
        /\ C.cacheTimestamps = <<>>
        /\ \A key \in StoreKeys : StorageKey(key) \notin DOMAIN C.localStorage
        /\ \A k \in OtherKeys :
              k \in DOMAIN localStorage =>
                  k \in DOMAIN C.localStorage /\ C.localStorage[k] = localStorage[k]
        /\ DOMAIN C.localStorage \subseteq DOMAIN localStorage

\* C14 witness: clear has just returned; memory is empty, no cache key has a
\* durable copy, and the items of both other components are in localStorage.
C14_Witness ==
    /\ last.op = "clear"
    /\ Size(Cur) = 0
    /\ \A key \in StoreKeys : ~InStorage(key)
    /\ \A k \in OtherKeys : k \in DOMAIN localStorage /\ localStorage[k] = OtherItem

----------------------------------------------------------------------------
(* Properties of the Viewport Renderer *)

\* the 0-based indices of the list, and the pixels [top, bottom) of a row
Indices == 0..(Len(vsm.data) - 1)
RowTop(i) == i * vsm.itemHeight
RowBottom(i) == (i + 1) * vsm.itemHeight
\* the pixels [top, bottom) of the list the container shows
ViewportTop == container.scrollTop
ViewportBottom == container.scrollTop + container.clientHeight

\* C15 (visible range), read in the claim's favour for an empty list (no row
\* is rendered then, whatever the indices are): once an operation has run,
\* a non-empty list has 0 <= startIndex <= endIndex <= data.length - 1.
C15_VisibleRange ==
    (last.op # "init" /\ Len(vsm.data) > 0) =>
        /\ 0 <= vsm.startIndex
        /\ vsm.startIndex <= vsm.endIndex
        /\ vsm.endIndex <= Len(vsm.data) - 1

\* C16 (windowing): after a scroll or resize event, every index whose row
\* intersects the viewport of the container lies in startIndex..endIndex, and
\* the range of a non-empty list stays within 0..data.length - 1.
C16_WindowCoversViewport ==
    last.op \in {"scroll", "resize"} =>
        /\ \A i \in Indices :
              (RowTop(i) < ViewportBottom /\ ViewportTop < RowBottom(i)) =>
                  (vsm.startIndex <= i /\ i <= vsm.endIndex)
        /\ Len(vsm.data) > 0 =>
              (0 <= vsm.startIndex /\ vsm.endIndex <= Len(vsm.data) - 1)

\* the integer n with n <= a / b < n + 1, and the one with n - 1 < a / b <= n
FloorOf(a, b) == CHOOSE n \in 0..a : n * b <= a /\ a < (n + 1) * b
CeilOf(a, b) == CHOOSE n \in 0..a : (n - 1) * b < a /\ a <= n * b

\* C17 (range formula): in every reachable state calculateVisibleRange gives
\* startIndex = max(0, floor(scrollTop / itemHeight) - bufferSize) and
\* endIndex = min(length - 1, ceil((scrollTop + containerHeight) / itemHeight)
\* + bufferSize) of the recorded this.scrollTop; the fields hold these values
\* after every operation that ran updateVisibleItems; and 1000 items of
\* height 60 in a container of 600 with buffer 5 at scrollTop 1200 give 15
\* and 35.
C17_RangeFormula ==
    LET V == calculateVisibleRange(vsm)
    IN  /\ V.startIndex
              = Max(0, FloorOf(vsm.scrollTop, vsm.itemHeight) - vsm.bufferSize)
        /\ V.endIndex
              = Min(Len(vsm.data) - 1,
                    CeilOf(vsm.scrollTop + vsm.containerHeight, vsm.itemHeight)
                        + vsm.bufferSize)
        /\ last.op # "init" /\ last.updated =>
              (vsm.startIndex = V.startIndex /\ vsm.endIndex = V.endIndex)
        /\ visibleRange(1000, 1200, 600, 60, 5)
              = [startIndex |-> 15, endIndex |-> 35]

\* C17 witness: an operation has just recomputed the range while the recorded
\* scrollTop is not a multiple of itemHeight and differs from the container's
\* scrollTop, and neither end of the range is clamped.
C17_Witness ==
    /\ last.op # "init"
    /\ last.updated
    /\ vsm.scrollTop % vsm.itemHeight # 0
    /\ vsm.scrollTop # container.scrollTop
    /\ vsm.startIndex > 0
    /\ vsm.endIndex < Len(vsm.data) - 1
    /\ vsm.startIndex <= vsm.endIndex

\* the operations that change the length of the list or the height of a row
HeightOps == {"setData", "addItem", "removeItem", "setItemHeight", "clear"}

\* C18 (total height): in every reachable state, so after every setData,
\* addItem, removeItem, setItemHeight and clear in any order and number,
\* totalHeight = data.length * itemHeight and the height of the spacer element
\* is totalHeight; after an operation that changed the list or the row height
\* the spacer's style.height itself is totalHeight.
C18_TotalHeight ==
    /\ vsm.totalHeight = Len(vsm.data) * vsm.itemHeight
    /\ SpacerHeight(vsm) = vsm.totalHeight
    /\ (last.op \in HeightOps /\ (last.updated \/ last.op = "clear")) =>
          vsm.virtualContent = vsm.totalHeight

\* C18 witness: removeItem has just removed a row of a list that still has
\* rows, after the row height was changed from the one of the constructor.
C18_Witness ==
    /\ last.op = "removeItem"
    /\ last.updated
    /\ Len(vsm.data) > 0
    /\ vsm.virtualContent = Len(vsm.data) * vsm.itemHeight
    /\ vsm.scrollTop > 0

\* C19 (destroy): once destroy() has returned, no listener the instance
\* registered is left on the container or on window, and no listener of an
\* earlier instance either.
C19_ListenersRemoved ==
    destroyed =>
        /\ ListenersOf(listeners, instance) = {}
        /\ Cardinality(listeners) = 0

\* C20 (cache collection): no step taken once VoucherManager has loaded its
\* list changes allVouchersCache, neither its length nor its records.
C20_CacheNotMutated ==
    [][loaded => allVouchersCache' = allVouchersCache]_vars

----------------------------------------------------------------------------
(* Properties of the search *)

SearchPending == Pending(timers, "performVoucherSearch")
SavePending == Pending(timers, "saveFormData")

\* C21: a burst of one or more non-empty keystrokes, each arriving while the
\* timer of the previous one is pending, leads to no call of
\* performVoucherSearch while the timer is pending and, once the quiet period
\* has passed, to exactly one call, which reads the value the input has after
\* the last keystroke
C21_DebounceCollapsing ==
    audit.keys >= 1 /\ ~audit.entered =>
        IF SearchPending # {}
        THEN audit.calls = 0
        ELSE audit.calls = 1 /\ audit.queried = trim(searchInput)

\* a burst of two keystrokes or more has been followed by its one search
C21_Witness ==
    /\ audit.keys = 2
    /\ ~audit.entered
    /\ SearchPending = {}
    /\ audit.calls = 1
    /\ audit.queried = trim(searchInput)

\* no timer of the search is pending and no call of performVoucherSearch is
\* suspended
Quiescent ==
    /\ SearchPending = {}
    /\ \A id \in SearchIds : searches[id].pc = "idle"

\* C22: whatever the order in which the requests settle, once nothing is
\* pending the results that were applied last are those of the query in the
\* input, and with an empty input the engine is in the no-active-filter state:
\* a search that resumes after the input was cleared or after a newer query
\* was applied does not replace the active list
C22_NoStaleResults ==
    Quiescent =>
        IF trim(searchInput) = <<>>
        THEN ~voucherManager.isSearchMode /\ voucherManager.searchResults = <<>>
        ELSE audit.applied = trim(searchInput)

\* C23: while the trimmed value of the input is empty no timer of the search
\* is pending, so none fires for the earlier text, and right after the input
\* event that cleared the input isSearchMode is false and searchResults is
\* empty
C23_ClearCancels ==
    trim(searchInput) = <<>> =>
        /\ SearchPending = {}
        /\ last.op = "input" =>
              ~voucherManager.isSearchMode /\ voucherManager.searchResults = <<>>

\* the input was cleared while the timer of an earlier text was pending
C23_Witness ==
    /\ last.op = "input"
    /\ last.pending
    /\ trim(searchInput) = <<>>
    /\ SearchPending = {}

\* C24: after a burst of keystrokes ended by Enter while the timer was pending
\* no timer of the search is pending and performVoucherSearch has been called
\* exactly once for the burst, with the value the input had at the key press
C24_EnterSearchesOnce ==
    audit.entered =>
        /\ SearchPending = {}
        /\ audit.calls = 1
        /\ audit.queried = trim(searchInput)

\* two keystrokes or more were followed by Enter within the debounce delay
C24_Witness ==
    /\ audit.entered
    /\ audit.keys = 2
    /\ audit.calls = 1
    /\ SearchPending = {}

\* C25: at most one timer of the search and at most one timer of
\* AutoSaveManager are pending, and a pending timer is the one whose handle
\* the field of its owner holds
C25_SingleSlotTimers ==
    /\ Cardinality(SearchPending) <= 1
    /\ Cardinality(SavePending) <= 1
    /\ \A t \in SearchPending : t.id = voucherManager.searchDebounceTimer
    /\ \A t \in SavePending : t.id = autoSave.saveTimer

\* both timers are pending, the one of the search armed again while it was
\* pending, the one of AutoSaveManager armed again by a form field
C25_Witness ==
    /\ Cardinality(SearchPending) = 1
    /\ Cardinality(SavePending) = 1
    /\ audit.keys = 2
    /\ last.op = "scheduleAutoSave"

\* C28: between two invalidations of the cache at most one getDocs request is
\* made for the collection, whatever the interleaving of the searches
C28_OneTimeLoad == audit.fetches <= 1

\* the records of a collection
Records(all) == {all[i] : i \in DOMAIN all}

\* C29: once handleAddVoucher has stored the new record and invalidated the
\* cache, a search that starts later goes through a collection that was
\* fetched after the mutation and so contains the new record
C29_MutationInvalidation ==
    last.op = "search" /\ last.later /\ audit.source = "snapshot" =>
        NewDoc \in Records(last.all)

\* two characters that are the same letter in either case
SameLetter(c, d) ==
    \/ c = d
    \/ {c, d} \in {{"A", "a"}, {"B", "b"}}

\* the characters of q occur in s one after the other, whatever their case
ContainsIgnoringCase(s, q) ==
    \E i \in 0..(Len(s) - Len(q)) : \A k \in 1..Len(q) : SameLetter(s[i + k], q[k])

\* the record has a voucherNumber that contains the query
Matching(voucher, query) ==
    /\ "voucherNumber" \in DOMAIN voucher
    /\ ContainsIgnoringCase(voucher.voucherNumber, query)

\* the matching records of a collection, in the order of the collection
Matches(all, query) == SelectSeq(all, LAMBDA voucher : Matching(voucher, query))

\* C26: after a search over a cached collection with more matching records
\* than the ceiling, exactly as many results as the ceiling are left and the
\* message tells that only the first ones are shown; with fewer matching
\* records than the ceiling all of them are left and the message does not tell
\* so; the results are never more than the ceiling
C26_SearchCeiling ==
    /\ Len(voucherManager.searchResults) <= MaxResults
    /\ last.op = "search" =>
          LET m == Len(Matches(last.all, last.query))
          IN  /\ m > MaxResults =>
                    /\ Len(voucherManager.searchResults) = MaxResults
                    /\ voucherManager.message = "first100"
              /\ m < MaxResults =>
                    /\ Len(voucherManager.searchResults) = m
                    /\ voucherManager.message # "first100"

\* a search found more matching records than the ceiling
C26_Witness ==
    /\ last.op = "search"
    /\ Len(Matches(last.all, last.query)) > MaxResults
    /\ Len(voucherManager.searchResults) = MaxResults
    /\ voucherManager.message = "first100"

\* C27: after a search the results are the first min(ceiling, m) of the m
\* records of the cached collection whose voucherNumber contains the trimmed
\* query whatever the case, in the order of the collection, and the cached
\* collection is the one the search went through
C27_SearchResultContent ==
    last.op = "search" =>
        LET matches == Matches(last.all, last.query)
        IN  /\ voucherManager.searchResults =
                  SubSeq(matches, 1, Min(MaxResults, Len(matches)))
            /\ allVouchersCache = last.all

\* a search with a query in another case than the numbers found some records
\* and passed over others
C27_Witness ==
    /\ last.op = "search"
    /\ voucherManager.searchResults # <<>>
    /\ Len(voucherManager.searchResults) < Len(last.all)
    /\ \E i \in DOMAIN voucherManager.searchResults :
          ~includes(voucherManager.searchResults[i].voucherNumber, last.query)
    /\ last.query # searchInput

----------------------------------------------------------------------------
(* Properties of the scroll listener *)

\* C30: a scroll event that leaves the container within half a row height of
\* the recorded scrollTop changes no field of the renderer, so scrollTop,
\* startIndex and endIndex stay as they were and the window is rendered again
\* only beyond that distance; after every scroll event the recorded scrollTop
\* is within half a row height of the scrollTop of the container
C30_ScrollThreshold ==
    [][last'.op = "scroll" =>
          /\ 2 * Abs(container'.scrollTop - vsm.scrollTop) <= vsm.itemHeight =>
                vsm' = vsm
          /\ 2 * Abs(container'.scrollTop - vsm'.scrollTop) <= vsm'.itemHeight]_vars

\* a scroll event moved the container by less than the threshold and the
\* renderer kept the scrollTop it had recorded
C30_Witness ==
    /\ last.op = "scroll"
    /\ ~last.updated
    /\ container.scrollTop # vsm.scrollTop
    /\ Len(vsm.data) > 0

----------------------------------------------------------------------------
(* Properties of the methods that are given an index *)

\* the range the recorded scrollTop gives for the list as it is
RangeOf(V) ==
    [startIndex |-> Max(0, FloorOf(V.scrollTop, V.itemHeight) - V.bufferSize),
     endIndex   |-> Min(Len(V.data) - 1,
                        CeilOf(V.scrollTop + V.containerHeight, V.itemHeight)
                            + V.bufferSize)]

\* every field of the renderer but the list and the rendered rows
Frame(V) ==
    <<V.itemHeight, V.bufferSize, V.scrollTop, V.containerHeight, V.totalHeight,
      V.startIndex, V.endIndex, V.virtualContent>>

\* C31: updateItem with an index of the list gives the record the fields of
\* the patch and keeps its other fields, renders a row again only if it is
\* the row of that index and the index is in the rendered range, and leaves
\* the length of the list, totalHeight, scrollTop, startIndex, endIndex and
\* the other records as they were; with another index it changes nothing
C31_UpdateItem ==
    [][last'.op = "updateItem" =>
          LET index == last'.index
              old   == vsm.data[index + 1]
              new   == vsm'.data[index + 1]
          IN  IF index >= 0 /\ index < Len(vsm.data)
              THEN /\ Len(vsm'.data) = Len(vsm.data)
                   /\ DOMAIN new = DOMAIN old \cup DOMAIN NewData
                   /\ \A f \in DOMAIN NewData : new[f] = NewData[f]
                   /\ \A f \in DOMAIN old \ DOMAIN NewData : new[f] = old[f]
                   /\ \A i \in DOMAIN vsm.data :
                         i # index + 1 => vsm'.data[i] = vsm.data[i]
                   /\ DOMAIN vsm'.visibleContainer = DOMAIN vsm.visibleContainer
                   /\ \A i \in DOMAIN vsm.visibleContainer :
                         vsm'.visibleContainer[i] # vsm.visibleContainer[i] =>
                             /\ i = index
                             /\ vsm.startIndex <= index /\ index <= vsm.endIndex
                   /\ Frame(vsm') = Frame(vsm)
              ELSE vsm' = vsm]_vars

\* updateItem has changed a record of the list that has no row
C31_Witness ==
    /\ last.op = "updateItem"
    /\ last.index < Len(vsm.data)
    /\ last.index \notin DOMAIN vsm.visibleContainer
    /\ vsm.data[last.index + 1].amount = NewData.amount
    /\ vsm.data[last.index + 1].id # 0

\* C32: after setData([]), after removeItem has removed the last record and
\* after clear() no row is rendered, getVisibleItems() is empty, the recorded
\* range startIndex..endIndex holds no index, and totalHeight is 0
C32_EmptyList ==
    /\ Len(vsm.data) = 0
    /\ \/ last.op \in {"setData", "clear"}
       \/ last.op = "removeItem" /\ last.updated
    => /\ vsm.visibleContainer = <<>>
       /\ getVisibleItems(vsm) = <<>>
       /\ vsm.startIndex > vsm.endIndex
       /\ vsm.totalHeight = 0

C36_ScrollToIndex ==
    [][last'.op = "scrollToIndex" =>
          LET index == last'.index
          IN  IF index >= 0 /\ index < Len(vsm.data)
              THEN /\ container'.scrollTop =
                         Min(index * vsm.itemHeight, maxScrollTop(vsm, container, TRUE))
                   /\ vsm'.data = vsm.data
                   /\ container'.scrollTop = container.scrollTop => vsm' = vsm
                   /\ container'.scrollTop # container.scrollTop =>
                         vsm'.startIndex <= index /\ index <= vsm'.endIndex
              ELSE vsm' = vsm /\ container' = container]_vars

\* scrollToIndex has moved the container to a row that was outside the range
\* and the scroll event has brought it inside
C36_Witness ==
    /\ last.op = "scrollToIndex"
    /\ last.updated
    /\ vsm.startIndex > 0
    /\ vsm.startIndex <= last.index
    /\ last.index <= vsm.endIndex
    /\ container.scrollTop = last.index * vsm.itemHeight

----------------------------------------------------------------------------
(* Properties of the search state *)

\* C37: when the getDocs request of loadAllVouchersCache has failed,
\* allVouchersCache is still null after the call, so that the next search
\* loads the collection again
C37_FailedLoadStaysCold ==
    last.op = "search" /\ audit.source = "catch" /\ audit.fetches = 1
        /\ ~audit.invalidated => ~loaded

\* the records of a collection a query matches
MatchesOf(all, query) ==
    {i \in DOMAIN all : includes(voucherNumberOf(all[i]), toLowerCase(query))}

\* C38: between the steps of the page isSearchMode is true exactly when
\* searchResults is not empty; a search that matches nothing leaves
\* isSearchMode false and searchResults empty, and a call of
\* performVoucherSearch with an empty query or without a user id changes
\* neither
C38_SearchModeConsistency ==
    /\ [](voucherManager.isSearchMode <=> voucherManager.searchResults # <<>>)
    /\ [](last.op = "search" /\ MatchesOf(last.all, last.query) = {} =>
             ~voucherManager.isSearchMode /\ voucherManager.searchResults = <<>>)
    /\ [][last'.op = "return" =>
             /\ trim(searchInput) = <<>> \/ voucherManager.currentUserId = Null
             /\ voucherManager'.isSearchMode = voucherManager.isSearchMode
             /\ voucherManager'.searchResults = voucherManager.searchResults]_vars
    /\ [][last'.op \in {"search", "getDocs"} =>
             voucherManager.currentUserId # Null]_vars

\* a search over a collection with records has matched nothing
C38_Witness ==
    /\ last.op = "search"
    /\ last.all # <<>>
    /\ MatchesOf(last.all, last.query) = {}
    /\ ~voucherManager.isSearchMode
    /\ voucherManager.searchResults = <<>>
    /\ voucherManager.message = "notFound"

----------------------------------------------------------------------------
(* Properties of the durable mirror *)

\* the durable copy of key is the JSON of the entry held in memory
Mirrored(key) ==
    /\ Hydratable(key)
    /\ JSONparse(localStorage[StorageKey(key)]).data = cache[key]
    /\ JSONparse(localStorage[StorageKey(key)]).timestamp = StoredAt(key)

\* C39: while the writes to localStorage succeed every key held in memory has
\* the durable copy 'cache_<key>' with its payload and timestamp, after any
\* sequence of set, get, has, delete and clear and the evictions they run; a
\* key that an operation takes out of memory, by eviction or expiry, has no
\* durable copy afterwards that a later get could hydrate
C39_MirrorConsistency ==
    /\ [](\A key \in EvictKeys : InMemory(key) => Mirrored(key))
    /\ [][last'.op # "reload" =>
             \A key \in EvictKeys :
                 InMemory(key) /\ ~InMemory(key)' => ~InStorage(key)']_vars

\* a set has evicted the oldest entry: its key is gone from memory and from
\* localStorage, and the entries that stay have their durable copies
C39_Witness ==
    /\ last.op = "set"
    /\ last.oldest = 1
    /\ last.expired = 0
    /\ Size(Cur) = maxCacheSize
    /\ \E key \in Keys \ {last.key} : ~InMemory(key) /\ ~InStorage(key)
    /\ \A key \in Keys : InMemory(key) => Mirrored(key)

\* C40: after invalidatePattern(pattern) get returns null for every key that
\* contains the pattern, whether its entry was held in memory or only in
\* localStorage, and the entries of the other keys are as they were
C40_InvalidatePattern ==
    last.op = "invalidatePattern" =>
        \A key \in PatternKeys :
            IF includes(key, last.pattern)
            THEN get(Cur, key, now).ret = Null
            ELSE /\ key \in DOMAIN cache <=> key \in DOMAIN last.before.cache
                 /\ key \in DOMAIN cache => cache[key] = last.before.cache[key]
                 /\ MapGet(cacheTimestamps, key) = MapGet(last.before.cacheTimestamps, key)
                 /\ StorageKey(key) \in DOMAIN localStorage
                        <=> StorageKey(key) \in DOMAIN last.before.localStorage

----------------------------------------------------------------------------
(* Properties of the constructor *)

\* C33: a constructor call whose selector matches no element throws: it
\* registers no listener, creates no element, and the caller gets no
\* instance, so the renderer, the container and the listeners are as before
C33_MissingContainer ==
    [][last'.op = "new" /\ last'.thrown =>
          /\ listeners' = listeners
          /\ last'.created = 0
          /\ last'.instance = Null
          /\ vsm' = vsm /\ instance' = instance /\ destroyed' = destroyed
          /\ container' = container]_vars

\* a constructor call has thrown while a renderer was in use
C33_Witness ==
    /\ last.op = "new"
    /\ last.thrown
    /\ ~destroyed
    /\ Len(vsm.data) > 0
    /\ ListenersOf(listeners, instance) # {}
    /\ ListenersOf(listeners, instance + 1) = {}

----------------------------------------------------------------------------
(* Properties of ErrorHandler.retry *)

RECURSIVE Pow2(_)
Pow2(n) == IF n = 0 THEN 1 ELSE 2 * Pow2(n - 1)

\* C34: retry calls operation at most maxRetries times; the first call that
\* succeeds ends it with the result of that call, all calls before having
\* failed; the waits between consecutive calls are delay, 2 * delay,
\* 4 * delay, ...; when maxRetries calls have failed it rejects with the error
\* of the last of them; and a call of retry whose operation settles every
\* time comes to its end
C34_Retry ==
    /\ [](/\ retrying.attempts <= Max(0, retrying.maxRetries)
          /\ \A k \in DOMAIN retrying.waits :
                retrying.waits[k] = Pow2(k - 1) * retrying.given
          /\ retrying.pc = "operation" =>
                /\ Len(retrying.errors) = retrying.attempts - 1
                /\ Len(retrying.waits) = retrying.attempts - 1
          /\ retrying.pc = "setTimeout" =>
                /\ Len(retrying.waits) = retrying.attempts
                /\ retrying.attempts < retrying.maxRetries
          /\ retrying.pc = "fulfilled" /\ retrying.maxRetries > 0 =>
                /\ last.op = "operation" /\ last.ok
                /\ retrying.result = last.value
                /\ Len(retrying.errors) = retrying.attempts - 1
                /\ Len(retrying.waits) = retrying.attempts - 1
          /\ retrying.pc = "rejected" =>
                /\ retrying.attempts = retrying.maxRetries
                /\ Len(retrying.errors) = retrying.maxRetries
                /\ last.op = "operation" /\ ~last.ok
                /\ retrying.result = last.value)
    /\ [][retrying.pc \in {"fulfilled", "rejected"} /\ last'.op # "retry" =>
             retrying' = retrying]_vars
    /\ (retrying.pc \in {"operation", "setTimeout"}
            ~> retrying.pc \in {"fulfilled", "rejected"})

\* a call has been rejected after maxRetries failed calls with two waits
C34_Witness ==
    /\ retrying.pc = "rejected"
    /\ retrying.maxRetries = 3
    /\ retrying.attempts = 3
    /\ retrying.waits = <<3, 6>>
    /\ retrying.errors = <<"network", "network", "permission">>
    /\ retrying.result = "permission"
====
